---- MODULE Spec2Model ----
(***************************************************************************)
(* A model of the token-aware chunker of the semantic search extension     *)
(* (src/src/utils/tokenChunker.ts): the tokenizer handle, the code         *)
(* variant splitIntoTokenChunks and the document variant                   *)
(* splitDocumentIntoChunks, with their boundary classifiers.               *)
(*                                                                         *)
(* Text is modelled as TLA+ strings; a line list is a sequence of strings. *)
(* The source indexes lines from 0; the operators below keep the source's  *)
(* 0-based indices and read sequences through At.                          *)
(***************************************************************************)
EXTENDS Integers, Sequences, FiniteSets, TLC

VARIABLES
    encoding,       \* module-level tokenizer handle: "null" or "cl100k_base"
    pc,             \* position of the current call
    entry,          \* the exported function the caller invoked
    filePath,       \* smartChunk only: the path passed to the call
    variant,        \* "code" (splitIntoTokenChunks), "doc" (splitDocumentIntoChunks)
    content,        \* the text passed to the call
    config,         \* the IndexingConfig passed to the call
    lines,          \* content.split('\n')
    tokenStarts,    \* tokens consumed before line i
    tokenEnds,      \* tokens consumed through line i
    totalTokens,
    maxTokens,      \* code variant: clamped chunkMaxTokens
    maxLine,        \* code variant: clamped chunkMaxLine
    overlapTokens,  \* code variant: clamped chunkOverlapTokens
    codeBlocks,     \* document variant: findCodeBlocks(lines)
    startLine,      \* 0-based cursor of the windowing loop
    chunks,         \* the chunks pushed so far / the returned array
    outcome,        \* "none" | "returned" | "threw"
    thrown,         \* the error value the call threw
    constructions,  \* how often the tokenizer was constructed in this call
    previous,       \* the array returned by the call before this one, when the
                    \* caller repeats that call with the same arguments
    tables,         \* the database: the tables that exist
    recorded,       \* the database: the versions in schema_migrations
    indexedPaths,   \* the database: the workspace paths of indexed_files
    workspaceRows,  \* the database: the workspace paths of workspaces
    migPc,          \* MigrationService: position of the current call
    currentVersion, \* migrate / rollback: the local currentVersion
    migIndex,       \* migrate: index of the migration the loop is at
    applied,        \* migrate: the versions applied by the current call
    calledOn,       \* migrate: the tables that existed when the call began
    upToDate,       \* a migrate() has completed and no rollback came after it
    probe,          \* a helper function called on its own: arguments and result
    initialized,    \* VectorDbService: this.initialized
    instance,       \* VectorDbService: this.instance, Null or a database instance
    connection,     \* VectorDbService: this.connection, Null or a connection
    callPc,         \* for each caller, the position of its initialize() call
    mine,           \* for each caller, the instance its call asked to create
    using,          \* for each caller, the connection its statements run on
    opened,         \* the number of DuckDBInstance.create calls made so far
    closedObjects,  \* the instances, each with its connection, closed so far
    instancesCreated,   \* since the last close(): instances created
    connectionsCreated, \* since the last close(): connections created
    schemaSetups,       \* since the last close(): schema setups started
    indexEntries,       \* IndexingService: the indexed files of each workspace
    isIndexing,         \* IndexingService: the isIndexing of its last status
    cachedEntries,      \* IndexTreeDataProvider: Map workspace -> entries
    cachedFolderTrees,  \* IndexTreeDataProvider: Map workspace -> folder tree
    groupByFolder,      \* IndexTreeDataProvider: this.groupByFolder
    showChunks,         \* IndexTreeDataProvider: this.showChunks
    treeDataChanged,    \* onDidChangeTreeData has fired and the view has not
                        \* asked for the root level since
    childrenCall        \* the getChildren call that is waiting for entries

dbVars == << tables, recorded, indexedPaths, workspaceRows, migPc, currentVersion,
             migIndex, applied, calledOn, upToDate >>

chunkerVars == << encoding, pc, entry, filePath, variant, content, config, lines,
                  tokenStarts, tokenEnds, totalTokens, maxTokens, maxLine,
                  overlapTokens, codeBlocks, startLine, chunks, outcome, thrown,
                  constructions, previous >>

helperVars == << probe >>

\* what the chunker leaves alone, what MigrationService leaves alone, what a
\* helper call leaves alone, what VectorDbService leaves alone and what the
\* index sidebar leaves alone are the other groups
serviceVars == << initialized, instance, connection, callPc, mine, using, opened,
                 closedObjects, instancesCreated, connectionsCreated, schemaSetups >>

treeVars == << indexEntries, isIndexing, cachedEntries, cachedFolderTrees, groupByFolder,
              showChunks, treeDataChanged, childrenCall >>

outsideChunker == << dbVars, helperVars, serviceVars, treeVars >>
outsideMigration == << chunkerVars, helperVars, serviceVars, treeVars >>
outsideHelper == << chunkerVars, dbVars, serviceVars, treeVars >>
outsideService == << chunkerVars, dbVars, helperVars, treeVars >>
outsideTree == << chunkerVars, dbVars, helperVars, serviceVars >>

vars == << chunkerVars, dbVars, helperVars, serviceVars, treeVars >>

(***************************************************************************)
(* Bounds of the model.                                                    *)
(***************************************************************************)
MaxLines == 3        \* free-form inputs: every line list up to this length
MaxBody == 1         \* two-function inputs: statements per function body
MaxPad == 8          \* padded inputs: copies of the filler line before the tail
MaxTail == 3         \* padded inputs: lines of the tail
MaxAfter == 4        \* blank-line inputs: statements after the blank line
MaxBlock == 1        \* fenced inputs: lines of a long block past codeBlockMaxLine

(***************************************************************************)
(* Small helpers.                                                          *)
(***************************************************************************)
Max(a, b) == IF a >= b THEN a ELSE b
Min(a, b) == IF a <= b THEN a ELSE b

\* seq[i] for a 0-based index i
At(seq, i) == seq[i + 1]

\* Array.prototype.slice(from, to) on a line list: 0-based, `to` exclusive
Slice(seq, from, to) == SubSeq(seq, from + 1, to)

\* "number | null" results use Null for null
Null == -1

(***************************************************************************)
(* String primitives of the JavaScript runtime, as the source uses them.   *)
(***************************************************************************)
Whitespace == {" ", "\t", "\r"}
Digits == {"0", "1", "2", "3", "4", "5", "6", "7", "8", "9"}

CharAt(s, i) == SubSeq(s, i, i)     \* 1-based character of a string

RECURSIVE TrimStart(_)
TrimStart(s) ==
    IF Len(s) > 0 /\ CharAt(s, 1) \in Whitespace
    THEN TrimStart(SubSeq(s, 2, Len(s)))
    ELSE s

RECURSIVE TrimEnd(_)
TrimEnd(s) ==
    IF Len(s) > 0 /\ CharAt(s, Len(s)) \in Whitespace
    THEN TrimEnd(SubSeq(s, 1, Len(s) - 1))
    ELSE s

\* String.prototype.trim
Trim(s) == TrimEnd(TrimStart(s))

\* String.prototype.startsWith / endsWith
StartsWith(s, p) == Len(s) >= Len(p) /\ SubSeq(s, 1, Len(p)) = p
EndsWith(s, p) == Len(s) >= Len(p) /\ SubSeq(s, Len(s) - Len(p) + 1, Len(s)) = p

\* content.split('\n'): the pieces between line feeds; "" gives one empty piece
RECURSIVE SplitFrom(_, _, _)
SplitFrom(s, i, cur) ==
    IF i > Len(s) THEN << cur >>
    ELSE IF CharAt(s, i) = "\n" THEN << cur >> \o SplitFrom(s, i + 1, "")
    ELSE SplitFrom(s, i + 1, cur \o CharAt(s, i))

Split(s) == SplitFrom(s, 1, "")

\* Array.prototype.join('\n')
RECURSIVE Join(_)
Join(ls) ==
    IF Len(ls) = 0 THEN ""
    ELSE IF Len(ls) = 1 THEN ls[1]
    ELSE ls[1] \o "\n" \o Join(Tail(ls))

\* the length of the leading run of character c in s
RECURSIVE RunLength(_, _)
RunLength(s, c) ==
    IF Len(s) > 0 /\ CharAt(s, 1) = c
    THEN 1 + RunLength(SubSeq(s, 2, Len(s)), c)
    ELSE 0

\* the length of the leading run of decimal digits in s
RECURSIVE DigitRun(_)
DigitRun(s) ==
    IF Len(s) > 0 /\ CharAt(s, 1) \in Digits
    THEN 1 + DigitRun(SubSeq(s, 2, Len(s)))
    ELSE 0

(***************************************************************************)
(* The tokenizer (js-tiktoken, outside the repository) is used only        *)
(* through the count enc.encode(line).length, a deterministic function of  *)
(* the line's text.  The model's vocabulary gives every character one      *)
(* token, except the letter W, which abbreviates a long run of text worth  *)
(* 130 tokens, so that short line lists reach the token ceilings.          *)
(***************************************************************************)
RECURSIVE EncodeLen(_)
EncodeLen(s) ==
    IF Len(s) = 0 THEN 0
    ELSE (IF CharAt(s, 1) = "W" THEN 130 ELSE 1) + EncodeLen(SubSeq(s, 2, Len(s)))

(***************************************************************************)
(* enum BoundaryType: boundary strengths of the code variant.              *)
(***************************************************************************)
None == 0
SingleLineComment == 1
Semicolon == 2
CloseBrace == 3
BlankLine == 4
MultiLineCommentEnd == 5
DoubleBlankLine == 6
FunctionEnd == 7
ImportBlockEnd == 8

\* the declaration-like openers that make a closing brace a FunctionEnd
DefinitionStarts ==
    { "function ", "class ", "export ", "const ", "async ", "def ", "public ",
      "private ", "@" }

\* getBoundaryType testing the line comment before the end of a block comment
getBoundaryTypeLineCommentFirst(line, prevLine, nextLine) ==
    LET trimmed == Trim(line)
        prevTrimmed == Trim(prevLine)
        nextTrimmed == Trim(nextLine)
    IN  IF trimmed = "" /\ prevTrimmed = "" THEN DoubleBlankLine
        ELSE IF /\ (StartsWith(trimmed, "import ") \/ StartsWith(trimmed, "from "))
                /\ nextTrimmed # ""
                /\ ~StartsWith(nextTrimmed, "import ")
                /\ ~StartsWith(nextTrimmed, "from ")
             THEN ImportBlockEnd
        ELSE IF trimmed = "}" \/ trimmed = "};"
             THEN IF \/ nextTrimmed = ""
                     \/ \E d \in DefinitionStarts : StartsWith(nextTrimmed, d)
                  THEN FunctionEnd
                  ELSE CloseBrace
        ELSE IF trimmed = "" THEN BlankLine
        ELSE IF \/ StartsWith(trimmed, "//")
                \/ StartsWith(trimmed, "#")
                \/ StartsWith(trimmed, "*")
             THEN SingleLineComment
        ELSE IF EndsWith(trimmed, "*/") THEN MultiLineCommentEnd
        ELSE IF EndsWith(trimmed, ";") THEN Semicolon
        ELSE None

\* getBoundaryType(line, prevLine, nextLine); a null neighbour is passed as ""
\* (prevLine?.trim() ?? '' gives '' for null)
getBoundaryType(line, prevLine, nextLine) ==
    LET trimmed == Trim(line)
        prevTrimmed == Trim(prevLine)
        nextTrimmed == Trim(nextLine)
    IN  IF trimmed = "" /\ prevTrimmed = "" THEN DoubleBlankLine
        ELSE IF /\ (StartsWith(trimmed, "import ") \/ StartsWith(trimmed, "from "))
                /\ nextTrimmed # ""
                /\ ~StartsWith(nextTrimmed, "import ")
                /\ ~StartsWith(nextTrimmed, "from ")
             THEN ImportBlockEnd
        ELSE IF trimmed = "}" \/ trimmed = "};"
             THEN IF \/ nextTrimmed = ""
                     \/ \E d \in DefinitionStarts : StartsWith(nextTrimmed, d)
                  THEN FunctionEnd
                  ELSE CloseBrace
        ELSE IF trimmed = "" THEN BlankLine
        ELSE IF EndsWith(trimmed, "*/") THEN MultiLineCommentEnd
        ELSE IF \/ StartsWith(trimmed, "//")
                \/ StartsWith(trimmed, "#")
                \/ StartsWith(trimmed, "*")
             THEN SingleLineComment
        ELSE IF EndsWith(trimmed, ";") THEN Semicolon
        ELSE None

\* the strength of line i of ls, with the neighbours findBestBoundary passes
BoundaryAt(ls, i) ==
    getBoundaryType(At(ls, i),
                    IF i > 0 THEN At(ls, i - 1) ELSE "",
                    IF i < Len(ls) - 1 THEN At(ls, i + 1) ELSE "")

\* the backward loop of findBestBoundary from index i down to searchStart
RECURSIVE BestBoundaryLoop(_, _, _, _, _, _)
BestBoundaryLoop(ls, i, searchStart, minBoundaryType, bestLine, bestType) ==
    IF i < searchStart THEN bestLine
    ELSE LET boundaryType == BoundaryAt(ls, i)
         IN  IF boundaryType >= minBoundaryType
             THEN IF boundaryType >= FunctionEnd THEN i
                  ELSE IF \/ boundaryType > bestType
                          \/ (boundaryType = bestType /\ bestLine = Null)
                       THEN BestBoundaryLoop(ls, i - 1, searchStart, minBoundaryType,
                                             i, boundaryType)
                       ELSE BestBoundaryLoop(ls, i - 1, searchStart, minBoundaryType,
                                             bestLine, bestType)
             ELSE BestBoundaryLoop(ls, i - 1, searchStart, minBoundaryType,
                                   bestLine, bestType)

\* findBestBoundary with a loop that stops before searchStart (i > searchStart)
findBestBoundarySkipsFirst(ls, searchStart, searchEnd, minBoundaryType) ==
    BestBoundaryLoop(ls, searchEnd - 1, searchStart + 1, minBoundaryType, Null, None)

\* findBestBoundary(lines, searchStart, searchEnd, minBoundaryType)
findBestBoundary(ls, searchStart, searchEnd, minBoundaryType) ==
    BestBoundaryLoop(ls, searchEnd - 1, searchStart, minBoundaryType, Null, None)

(***************************************************************************)
(* The document variant's constants and classifiers.                       *)
(***************************************************************************)
DOC_CONFIG ==
    [ maxTokens |-> 256, maxLine |-> 8, overlapTokens |-> 64, overlapLines |-> 2,
      codeBlockMaxTokens |-> 512, codeBlockMaxLine |-> 30 ]

\* enum DocBoundaryType
DocNone == 0
ListItem == 1
Paragraph == 2
CodeBlockEnd == 3
HorizontalRule == 4
Heading == 5

\* The backtick cannot be written in a TLA+ string literal; in the model's text
\* the character ^ stands for it, so a backtick fence is written "^^^".
BacktickFence == "^^^"
TildeFence == "~~~"

\* isCodeFence(line)
isCodeFence(line) ==
    LET trimmed == Trim(line)
    IN  StartsWith(trimmed, BacktickFence) \/ StartsWith(trimmed, TildeFence)

\* the heading pattern: one to six '#' at the start, then a whitespace character
IsHeadingText(trimmed) ==
    LET n == RunLength(trimmed, "#")
    IN  n >= 1 /\ n <= 6 /\ Len(trimmed) > n /\ CharAt(trimmed, n + 1) \in Whitespace

\* the rule pattern: the whole text is three or more of one of '-', '*', '_' 
IsRuleText(trimmed) ==
    \E c \in {"-", "*", "_"} :
        RunLength(trimmed, c) >= 3 /\ RunLength(trimmed, c) = Len(trimmed)

\* the list pattern: '-', '*' or '+' then whitespace, or digits, '.', whitespace
IsListText(trimmed) ==
    \/ /\ Len(trimmed) >= 2
       /\ CharAt(trimmed, 1) \in {"-", "*", "+"}
       /\ CharAt(trimmed, 2) \in Whitespace
    \/ LET d == DigitRun(trimmed)
       IN  /\ d >= 1
           /\ Len(trimmed) >= d + 2
           /\ CharAt(trimmed, d + 1) = "."
           /\ CharAt(trimmed, d + 2) \in Whitespace

\* getDocBoundaryType(line, prevLine); a null prevLine is passed as ""
getDocBoundaryType(line, prevLine) ==
    LET trimmed == Trim(line)
        prevTrimmed == Trim(prevLine)
    IN  IF IsHeadingText(trimmed) THEN Heading
        ELSE IF IsRuleText(trimmed) THEN HorizontalRule
        ELSE IF isCodeFence(trimmed) /\ prevTrimmed # "" THEN CodeBlockEnd
        ELSE IF trimmed = "" /\ prevTrimmed # "" THEN Paragraph
        ELSE IF IsListText(trimmed) THEN ListItem
        ELSE DocNone

\* the forward loop of findCodeBlocks from index i
RECURSIVE CodeBlocksLoop(_, _, _, _, _)
CodeBlocksLoop(ls, i, inCodeBlock, blockStart, blocks) ==
    IF i >= Len(ls)
    THEN IF inCodeBlock /\ blockStart >= 0
         THEN Append(blocks, << blockStart, Len(ls) - 1 >>)
         ELSE blocks
    ELSE IF isCodeFence(At(ls, i))
         THEN IF ~inCodeBlock
              THEN CodeBlocksLoop(ls, i + 1, TRUE, i, blocks)
              ELSE CodeBlocksLoop(ls, i + 1, FALSE, blockStart,
                                  Append(blocks, << blockStart, i >>))
         ELSE CodeBlocksLoop(ls, i + 1, inCodeBlock, blockStart, blocks)

\* findCodeBlocks with a loop that starts at the second line
findCodeBlocksFromSecondLine(ls) == CodeBlocksLoop(ls, 1, FALSE, Null, << >>)

\* findCodeBlocks(lines): [start, end] pairs, inclusive, 0-based
findCodeBlocks(ls) == CodeBlocksLoop(ls, 0, FALSE, Null, << >>)

\* the null result of isInCodeBlock
NoBlock == << >>

\* isInCodeBlock(lineIndex, codeBlocks): the first range holding the line, or null
RECURSIVE isInCodeBlock(_, _)
isInCodeBlock(lineIndex, blocks) ==
    IF Len(blocks) = 0 THEN NoBlock
    ELSE IF lineIndex >= Head(blocks)[1] /\ lineIndex <= Head(blocks)[2]
         THEN Head(blocks)
         ELSE isInCodeBlock(lineIndex, Tail(blocks))

\* DocBoundaryLoop answering the heading's own index
RECURSIVE DocBoundaryLoopAtHeading(_, _, _, _, _, _)
DocBoundaryLoopAtHeading(ls, i, searchStart, blocks, bestLine, bestType) ==
    IF i < searchStart THEN bestLine
    ELSE IF isInCodeBlock(i, blocks) # NoBlock
         THEN DocBoundaryLoopAtHeading(ls, i - 1, searchStart, blocks, bestLine, bestType)
    ELSE LET boundaryType ==
                 getDocBoundaryType(At(ls, i), IF i > 0 THEN At(ls, i - 1) ELSE "")
         IN  IF boundaryType >= Heading
             THEN i
             ELSE IF boundaryType > bestType
                  THEN DocBoundaryLoopAtHeading(ls, i - 1, searchStart, blocks, i,
                                                boundaryType)
                  ELSE DocBoundaryLoopAtHeading(ls, i - 1, searchStart, blocks,
                                                bestLine, bestType)

\* the backward loop of findDocBoundary from index i down to searchStart
RECURSIVE DocBoundaryLoop(_, _, _, _, _, _)
DocBoundaryLoop(ls, i, searchStart, blocks, bestLine, bestType) ==
    IF i < searchStart THEN bestLine
    ELSE IF isInCodeBlock(i, blocks) # NoBlock
         THEN DocBoundaryLoop(ls, i - 1, searchStart, blocks, bestLine, bestType)
    ELSE LET boundaryType ==
                 getDocBoundaryType(At(ls, i), IF i > 0 THEN At(ls, i - 1) ELSE "")
         IN  IF boundaryType >= Heading
             THEN (IF i > 0 THEN i - 1 ELSE i)
             ELSE IF boundaryType > bestType
                  THEN DocBoundaryLoop(ls, i - 1, searchStart, blocks, i, boundaryType)
                  ELSE DocBoundaryLoop(ls, i - 1, searchStart, blocks, bestLine, bestType)

\* findDocBoundary searching as if the document had no fenced block
findDocBoundaryNoBlocks(ls, searchStart, searchEnd, blocks) ==
    DocBoundaryLoop(ls, searchEnd - 1, searchStart, << >>, Null, DocNone)

\* findDocBoundary(lines, searchStart, searchEnd, codeBlocks)
findDocBoundary(ls, searchStart, searchEnd, blocks) ==
    DocBoundaryLoop(ls, searchEnd - 1, searchStart, blocks, Null, DocNone)

(***************************************************************************)
(* The token index of both variants (the loop over enc.encode(lines[i])).  *)
(***************************************************************************)
RECURSIVE TokenIndexLoop(_, _, _, _, _)
TokenIndexLoop(ls, i, total, starts, ends) ==
    IF i >= Len(ls)
    THEN [ tokenStarts |-> starts, tokenEnds |-> ends, totalTokens |-> total ]
    ELSE LET lineTokens == EncodeLen(At(ls, i))
         IN  TokenIndexLoop(ls, i + 1, total + lineTokens,
                            Append(starts, total), Append(ends, total + lineTokens))

TokenIndex(ls) == TokenIndexLoop(ls, 0, 0, << >>, << >>)

\* MakeChunk reading the token end from the last line's token start
MakeChunkTokenStartAsEnd(ls, tStarts, tEnds, start, endLine) ==
    [ content    |-> Join(Slice(ls, start, endLine + 1)),
      lineStart  |-> start + 1,
      lineEnd    |-> endLine + 1,
      tokenStart |-> At(tStarts, start),
      tokenEnd   |-> At(tStarts, endLine) ]

\* MakeChunk with the last line off by one (endLineExclusive + 1)
MakeChunkLineEndPastLast(ls, tStarts, tEnds, start, endLine) ==
    [ content    |-> Join(Slice(ls, start, endLine + 1)),
      lineStart  |-> start + 1,
      lineEnd    |-> endLine + 2,
      tokenStart |-> At(tStarts, start),
      tokenEnd   |-> At(tEnds, endLine) ]

\* one pushed TokenChunk covering the 0-based lines start..endLine
MakeChunk(ls, tStarts, tEnds, start, endLine) ==
    [ content    |-> Join(Slice(ls, start, endLine + 1)),
      lineStart  |-> start + 1,
      lineEnd    |-> endLine + 1,
      tokenStart |-> At(tStarts, start),
      tokenEnd   |-> At(tEnds, endLine) ]

\* WholeChunk with a 0-based last line
WholeChunkZeroBased(c, ls, total) ==
    [ content |-> c, lineStart |-> 1, lineEnd |-> Len(ls) - 1,
      tokenStart |-> 0, tokenEnd |-> total ]

\* the chunk of the single-chunk return: the content itself, all lines
WholeChunk(c, ls, total) ==
    [ content |-> c, lineStart |-> 1, lineEnd |-> Len(ls),
      tokenStart |-> 0, tokenEnd |-> total ]

\* Math.floor(maxEndLine - (maxEndLine - startLine) * f) for f = tenths / 10,
\* clamped below by startLine.  For window lengths up to 200 the double
\* arithmetic of the source gives maxEndLine - ceil(tenths * length / 10).
SearchStart(start, maxEnd, tenths) ==
    Max(start, maxEnd - ((tenths * (maxEnd - start) + 9) \div 10))

\* the first line after start, up to endLine, whose token start reaches desired
RECURSIVE OverlapLoop(_, _, _, _)
OverlapLoop(tStarts, i, endLine, desired) ==
    IF i > endLine THEN endLine
    ELSE IF At(tStarts, i) >= desired THEN i
    ELSE OverlapLoop(tStarts, i + 1, endLine, desired)

(***************************************************************************)
(* splitIntoTokenChunks: configuration and one iteration of its loop.      *)
(***************************************************************************)
ClampMaxTokens(raw) == Min(Max(raw, 256), 2048)
ClampMaxLine(raw) == Min(Max(raw, 10), 200)
\* ClampOverlapTokens without the lower clamp at 0
ClampOverlapTokensNoFloor(raw, mTokens) == Min(raw, mTokens - 1)

ClampOverlapTokens(raw, mTokens) == Max(0, Min(raw, mTokens - 1))

\* Step 1: the inner while loop that grows maxEndLine
RECURSIVE CodeExtendLoop(_, _, _, _, _, _)
CodeExtendLoop(tEnds, n, start, chunkTokenStart, m, limits) ==
    IF m >= n THEN m
    ELSE IF \/ At(tEnds, m) - chunkTokenStart > limits.maxTokens
            \/ m - start + 1 > limits.maxLine
         THEN m
         ELSE CodeExtendLoop(tEnds, n, start, chunkTokenStart, m + 1, limits)

\* CodeMaxEndLine growing the window to the last line whatever the budget
CodeMaxEndLineToLastLine(tStarts, tEnds, n, start, limits) == n

CodeMaxEndLine(tStarts, tEnds, n, start, limits) ==
    CodeExtendLoop(tEnds, n, start, At(tStarts, start), start + 1, limits)

\* CodeEndLine without the back-off to a boundary
CodeEndLineNoBackoff(ls, start, maxEndLine) == Max(start, maxEndLine - 1)

\* Step 2: the end line of the chunk
CodeEndLine(ls, start, maxEndLine) ==
    LET found == findBestBoundary(ls, SearchStart(start, maxEndLine, 3), maxEndLine,
                                  Semicolon)
    IN  Max(start, IF found = Null THEN maxEndLine - 1 ELSE found)

\* CodeNextStart starting one line too late
CodeNextStartSkipsLine(ls, tStarts, tEnds, start, endLine, limits) == endLine + 2

\* CodeNextStart without the forced progress
CodeNextStartNoProgress(ls, tStarts, tEnds, start, endLine, limits) ==
    LET endLineExclusive == endLine + 1
        desiredOverlapStartToken ==
            Max(At(tStarts, start), At(tEnds, endLine) - limits.overlapTokens)
        rawOverlapStart == OverlapLoop(tStarts, start + 1, endLine, desiredOverlapStartToken)
        maxOverlapLines == Max(1, limits.maxLine \div 4)
        overlapStartLine == Max(rawOverlapStart, endLineExclusive - maxOverlapLines)
        boundaryLine ==
            findBestBoundary(ls, Max(start + 1, overlapStartLine - 3),
                             Min(endLineExclusive, overlapStartLine + 3), BlankLine)
    IN  IF limits.overlapTokens <= 0 THEN endLineExclusive
        ELSE IF boundaryLine # Null /\ boundaryLine > start THEN boundaryLine + 1
        ELSE overlapStartLine

\* CodeNextStart that looks for an overlap start also when none is requested
CodeNextStartAlwaysOverlaps(ls, tStarts, tEnds, start, endLine, limits) ==
    LET endLineExclusive == endLine + 1
        desiredOverlapStartToken ==
            Max(At(tStarts, start), At(tEnds, endLine) - limits.overlapTokens)
        rawOverlapStart == OverlapLoop(tStarts, start + 1, endLine, desiredOverlapStartToken)
        maxOverlapLines == Max(1, limits.maxLine \div 4)
        overlapStartLine == Max(rawOverlapStart, endLineExclusive - maxOverlapLines)
        boundaryLine ==
            findBestBoundary(ls, Max(start + 1, overlapStartLine - 3),
                             Min(endLineExclusive, overlapStartLine + 3), BlankLine)
        nextStartLine ==
            IF boundaryLine # Null /\ boundaryLine > start THEN boundaryLine + 1
            ELSE overlapStartLine
    IN  IF nextStartLine <= start THEN start + 1 ELSE nextStartLine

\* Step 4: the next startLine, with the forced progress
CodeNextStart(ls, tStarts, tEnds, start, endLine, limits) ==
    LET endLineExclusive == endLine + 1
        desiredOverlapStartToken ==
            Max(At(tStarts, start), At(tEnds, endLine) - limits.overlapTokens)
        rawOverlapStart == OverlapLoop(tStarts, start + 1, endLine, desiredOverlapStartToken)
        maxOverlapLines == Max(1, limits.maxLine \div 4)
        overlapStartLine == Max(rawOverlapStart, endLineExclusive - maxOverlapLines)
        boundaryLine ==
            findBestBoundary(ls, Max(start + 1, overlapStartLine - 3),
                             Min(endLineExclusive, overlapStartLine + 3), BlankLine)
        nextStartLine ==
            IF limits.overlapTokens <= 0 THEN endLineExclusive
            ELSE IF boundaryLine # Null /\ boundaryLine > start THEN boundaryLine + 1
            ELSE overlapStartLine
    IN  IF nextStartLine <= start THEN start + 1 ELSE nextStartLine

(***************************************************************************)
(* splitDocumentIntoChunks: one iteration of its loop.                     *)
(***************************************************************************)
\* DocLimits that never forces the end of the chunk
DocLimitsNeverForces(tEnds, blocks, start, chunkTokenStart) ==
    IF isInCodeBlock(start, blocks) # NoBlock
    THEN [ maxTokens |-> DOC_CONFIG.codeBlockMaxTokens,
           maxLine |-> DOC_CONFIG.codeBlockMaxLine, forceEndLine |-> Null ]
    ELSE [ maxTokens |-> DOC_CONFIG.maxTokens, maxLine |-> DOC_CONFIG.maxLine,
           forceEndLine |-> Null ]

\* the budget of a window starting at start, and the forced end line if any
DocLimits(tEnds, blocks, start, chunkTokenStart) ==
    LET codeBlock == isInCodeBlock(start, blocks)
    IN  IF codeBlock # NoBlock
        THEN LET blockEnd == codeBlock[2]
                 blockTokens == At(tEnds, blockEnd) - chunkTokenStart
                 blockLines == blockEnd - start + 1
             IN  [ maxTokens |-> DOC_CONFIG.codeBlockMaxTokens,
                   maxLine |-> DOC_CONFIG.codeBlockMaxLine,
                   forceEndLine |->
                       IF /\ blockTokens <= DOC_CONFIG.codeBlockMaxTokens
                          /\ blockLines <= DOC_CONFIG.codeBlockMaxLine
                       THEN blockEnd ELSE Null ]
        ELSE [ maxTokens |-> DOC_CONFIG.maxTokens, maxLine |-> DOC_CONFIG.maxLine,
               forceEndLine |-> Null ]

\* the inner while loop that grows maxEndLine, stopping before a block that
\* does not fit the remaining tokens
RECURSIVE DocExtendLoop(_, _, _, _, _, _, _, _)
DocExtendLoop(tStarts, tEnds, n, blocks, start, chunkTokenStart, m, limits) ==
    IF m >= n THEN m
    ELSE IF \/ At(tEnds, m) - chunkTokenStart > limits.maxTokens
            \/ m - start + 1 > limits.maxLine
         THEN m
    ELSE LET nextCodeBlock == isInCodeBlock(m, blocks)
             startsBlock == nextCodeBlock # NoBlock /\ nextCodeBlock[1] = m
             blockTokens == At(tEnds, nextCodeBlock[2]) - At(tStarts, nextCodeBlock[1])
             remainingTokens == limits.maxTokens - (At(tEnds, m - 1) - chunkTokenStart)
         IN  IF startsBlock /\ blockTokens > remainingTokens
             THEN m
             ELSE DocExtendLoop(tStarts, tEnds, n, blocks, start, chunkTokenStart,
                                m + 1, limits)

DocMaxEndLine(tStarts, tEnds, n, blocks, start, limits) ==
    IF limits.forceEndLine # Null
    THEN limits.forceEndLine + 1
    ELSE DocExtendLoop(tStarts, tEnds, n, blocks, start, At(tStarts, start),
                       start + 1, limits)

\* the end line of the chunk
DocEndLine(ls, blocks, start, maxEndLine, limits) ==
    LET boundaryLine ==
            findDocBoundary(ls, SearchStart(start, maxEndLine, 4), maxEndLine, blocks)
        chosen ==
            IF limits.forceEndLine # Null THEN limits.forceEndLine
            ELSE IF boundaryLine = Null THEN maxEndLine - 1
            ELSE boundaryLine
    IN  Max(start, chosen)

\* DocNextStart keeping an overlap start that falls inside a fenced block
DocNextStartIntoBlock(ls, tStarts, tEnds, blocks, start, endLine) ==
    LET endLineExclusive == endLine + 1
        desiredOverlapStartToken ==
            Max(At(tStarts, start), At(tEnds, endLine) - DOC_CONFIG.overlapTokens)
        rawOverlapStart == OverlapLoop(tStarts, start + 1, endLine, desiredOverlapStartToken)
        overlapStartLine ==
            Max(rawOverlapStart, endLineExclusive - DOC_CONFIG.overlapLines)
        nextStartLine ==
            IF isInCodeBlock(endLine, blocks) # NoBlock THEN endLineExclusive
            ELSE overlapStartLine
        skipped ==
            IF nextStartLine < Len(ls) /\ Trim(At(ls, nextStartLine)) = ""
            THEN nextStartLine + 1
            ELSE nextStartLine
    IN  IF skipped <= start THEN start + 1 ELSE skipped

\* DocNextStart without the forced progress
DocNextStartNoProgress(ls, tStarts, tEnds, blocks, start, endLine) ==
    LET endLineExclusive == endLine + 1
        desiredOverlapStartToken ==
            Max(At(tStarts, start), At(tEnds, endLine) - DOC_CONFIG.overlapTokens)
        rawOverlapStart == OverlapLoop(tStarts, start + 1, endLine, desiredOverlapStartToken)
        overlapStartLine ==
            Max(rawOverlapStart, endLineExclusive - DOC_CONFIG.overlapLines)
        overlapCodeBlock == isInCodeBlock(overlapStartLine, blocks)
        nextStartLine ==
            IF isInCodeBlock(endLine, blocks) # NoBlock THEN endLineExclusive
            ELSE IF overlapCodeBlock # NoBlock THEN overlapCodeBlock[2] + 1
            ELSE overlapStartLine
    IN  IF nextStartLine < Len(ls) /\ Trim(At(ls, nextStartLine)) = ""
        THEN nextStartLine + 1
        ELSE nextStartLine

\* the next startLine: overlap, the skip of one blank line, the forced progress
DocNextStart(ls, tStarts, tEnds, blocks, start, endLine) ==
    LET endLineExclusive == endLine + 1
        desiredOverlapStartToken ==
            Max(At(tStarts, start), At(tEnds, endLine) - DOC_CONFIG.overlapTokens)
        rawOverlapStart == OverlapLoop(tStarts, start + 1, endLine, desiredOverlapStartToken)
        overlapStartLine ==
            Max(rawOverlapStart, endLineExclusive - DOC_CONFIG.overlapLines)
        overlapCodeBlock == isInCodeBlock(overlapStartLine, blocks)
        nextStartLine ==
            IF isInCodeBlock(endLine, blocks) # NoBlock THEN endLineExclusive
            ELSE IF overlapCodeBlock # NoBlock THEN overlapCodeBlock[2] + 1
            ELSE overlapStartLine
        afterBlank ==
            IF nextStartLine < Len(ls) /\ Trim(At(ls, nextStartLine)) = ""
            THEN nextStartLine + 1
            ELSE nextStartLine
    IN  IF afterBlank <= start THEN start + 1 ELSE afterBlank

(***************************************************************************)
(* isDocumentFile and the dispatch of smartChunk.                          *)
(***************************************************************************)
UpperCaseLetters == "ABCDEFGHIJKLMNOPQRSTUVWXYZ"
LowerCaseLetters == "abcdefghijklmnopqrstuvwxyz"

\* String.prototype.toLowerCase, on the letters A to Z
RECURSIVE toLowerCase(_)
toLowerCase(s) ==
    IF Len(s) = 0 THEN ""
    ELSE LET ch == CharAt(s, 1)
             upper == { i \in 1..26 : CharAt(UpperCaseLetters, i) = ch }
         IN  (IF upper = { } THEN ch
              ELSE CharAt(LowerCaseLetters, CHOOSE i \in upper : TRUE))
             \o toLowerCase(SubSeq(s, 2, Len(s)))

\* s.split('.').pop(): the text after the last '.', the whole of s without one
RECURSIVE LastPiece(_, _, _)
LastPiece(s, i, cur) ==
    IF i > Len(s) THEN cur
    ELSE IF CharAt(s, i) = "." THEN LastPiece(s, i + 1, "")
    ELSE LastPiece(s, i + 1, cur \o CharAt(s, i))

docExtensions == { "md", "markdown", "mdx", "txt", "rst", "adoc", "asciidoc" }

\* isDocumentFile(filePath)
isDocumentFile(path) == LastPiece(toLowerCase(path), 1, "") \in docExtensions

(***************************************************************************)
(* The inputs of the calls.                                                *)
(***************************************************************************)
SeqsUpTo(S, n) == UNION { [1..k -> S] : k \in 1..n }

\* k copies of a line
Repeat(line, k) == [i \in 1..k |-> line]

\* line texts of program-like input
CodeLineTexts ==
    { "", "}", "x;", "W;", "WW", "import a;", "function f() {", "// c", " */" }
\* line texts of document input
DocLineTexts == { "", "t", "W", "^^^", "^^^ WW", "# H", "- i", "---", "~~~" }
\* the tails of the padded inputs
CodeTailTexts == { "", "x;", "}" }
DocTailTexts == { "", "t", "^^^" }

\* two functions separated by one blank line; a body is a list of statements
FunctionHeaders == { "function f() {", "function g(WW) {" }
BodyTexts == { "x;", "W;" }
Bodies == { << >> } \cup SeqsUpTo(BodyTexts, MaxBody)
FunctionLines(header, body) == << header >> \o body \o << "}" >>
TwoFunctionLines ==
    { FunctionLines(h1, b1) \o << "" >> \o FunctionLines(h2, b2) :
        h1 \in FunctionHeaders, b1 \in Bodies, h2 \in FunctionHeaders, b2 \in Bodies }

PaddedLines(filler, tails) ==
    { Repeat(filler, k) \o tail : k \in 1..MaxPad, tail \in SeqsUpTo(tails, MaxTail) }

\* statements, one blank line, statements
BlankSplitLines ==
    { Repeat("x;", a) \o << "" >> \o Repeat("x;", b) : a \in 1..MaxPad, b \in 1..MaxAfter }

\* the lines between the fences: a few, or about as many as codeBlockMaxLine
BlockLengths ==
    (0..MaxPad) \cup
    ((DOC_CONFIG.codeBlockMaxLine - 2)..(DOC_CONFIG.codeBlockMaxLine + MaxBlock))

\* a fenced block, closed or not, after up to one line of prose and before
\* nothing, two lines of prose, or a heading and a long line
FenceClosings == { << >>, << BacktickFence >> }
AfterFenceLines == { << >>, << "t", "t" >>, << "# H", "WW" >> }
FencedLines ==
    { Repeat("t", a) \o << BacktickFence >> \o Repeat(filler, b) \o closing \o after :
        a \in 0..1, filler \in { "t", "W" }, b \in BlockLengths,
        closing \in FenceClosings, after \in AfterFenceLines }

CodeContents ==
    { Join(ls) : ls \in SeqsUpTo(CodeLineTexts, MaxLines)
                        \cup PaddedLines("x;", CodeTailTexts)
                        \cup TwoFunctionLines
                        \cup BlankSplitLines }

DocContents ==
    { Join(ls) : ls \in SeqsUpTo(DocLineTexts, MaxLines)
                        \cup PaddedLines("t", DocTailTexts)
                        \cup FencedLines }

\* IndexingConfig values: below, inside and above the clamping ranges
Configs ==
    { [ chunkMaxTokens |-> 0, chunkMaxLine |-> 0, chunkOverlapTokens |-> -5 ],
      [ chunkMaxTokens |-> -1, chunkMaxLine |-> 10, chunkOverlapTokens |-> 100000 ],
      [ chunkMaxTokens |-> 300, chunkMaxLine |-> 12, chunkOverlapTokens |-> 64 ],
      [ chunkMaxTokens |-> 100000, chunkMaxLine |-> 5000, chunkOverlapTokens |-> 100000 ] }

\* the document variant never reads its config argument
DocConfigs == { [ chunkMaxTokens |-> 300, chunkMaxLine |-> 12, chunkOverlapTokens |-> 64 ] }

\* the paths passed to smartChunk
FilePaths ==
    { "a.md", "A.MD", "b/a.Md", "a.markdown", "a.mdx", "a.txt", "a.rst", "a.adoc",
      "a.asciidoc", "a.ts", "a.md.ts", "a.ts.md", "a.md/b", "b/README", "README",
      "a.", "", "md", "TXT" }

\* the contents passed to smartChunk: two to MaxPad + MaxTail lines of prose
SmartContents == { Join(ls) : ls \in PaddedLines("t", { "t" }) }

\* the exported functions
Entries == { "splitIntoTokenChunks", "splitDocumentIntoChunks", "smartChunk" }

\* previous when the call is not a repetition
NoPrevious == [ known |-> FALSE, chunks |-> << >> ]

\* what the tokenizer library throws when it cannot be loaded or cannot encode
ConstructErrors == { "MODULE_NOT_FOUND" }
EncodeErrors == { "EncodeError" }

(***************************************************************************)
(* The state machine: a process that calls the two entry points, one call  *)
(* at a time.                                                              *)
(***************************************************************************)
NoCallLocals ==
    /\ filePath' = ""
    /\ previous' = NoPrevious
    /\ variant' = "none"
    /\ content' = ""
    /\ config' = << >>
    /\ lines' = << >>
    /\ tokenStarts' = << >>
    /\ tokenEnds' = << >>
    /\ totalTokens' = 0
    /\ maxTokens' = 0
    /\ maxLine' = 0
    /\ overlapTokens' = 0
    /\ codeBlocks' = << >>
    /\ startLine' = 0
    /\ UNCHANGED outsideChunker

\* the chunker module when it has been loaded
ChunkerInit ==
    /\ encoding = "null"
    /\ pc = "idle"
    /\ entry = "none"
    /\ filePath = ""
    /\ previous = NoPrevious
    /\ variant = "none"
    /\ content = ""
    /\ config = << >>
    /\ lines = << >>
    /\ tokenStarts = << >>
    /\ tokenEnds = << >>
    /\ totalTokens = 0
    /\ maxTokens = 0
    /\ maxLine = 0
    /\ overlapTokens = 0
    /\ codeBlocks = << >>
    /\ startLine = 0
    /\ chunks = << >>
    /\ outcome = "none"
    /\ thrown = "none"
    /\ constructions = 0

\* Begin appending to the chunk array of the call before (the array kept
\* outside the function instead of created in it)
BeginKeepsChunks(v, c, cfg) ==
    /\ encoding' = "cl100k_base"
    /\ constructions' = (IF encoding = "null" THEN 1 ELSE 0)
    /\ variant' = v
    /\ content' = c
    /\ config' = cfg
    /\ lines' = Split(c)
    /\ LET index == TokenIndex(Split(c))
       IN  /\ tokenStarts' = index.tokenStarts
           /\ tokenEnds' = index.tokenEnds
           /\ totalTokens' = index.totalTokens
    /\ pc' = "indexed"
    /\ outcome' = "none"
    /\ thrown' = "none"
    /\ startLine' = 0
    /\ maxTokens' = 0
    /\ maxLine' = 0
    /\ overlapTokens' = 0
    /\ codeBlocks' = << >>
    /\ UNCHANGED chunks
    /\ UNCHANGED outsideChunker

\* Begin with a getEncoding that constructs the tokenizer on every call
BeginConstructsAgain(v, c, cfg) ==
    /\ encoding' = "cl100k_base"
    /\ constructions' = 1
    /\ variant' = v
    /\ content' = c
    /\ config' = cfg
    /\ lines' = Split(c)
    /\ LET index == TokenIndex(Split(c))
       IN  /\ tokenStarts' = index.tokenStarts
           /\ tokenEnds' = index.tokenEnds
           /\ totalTokens' = index.totalTokens
    /\ pc' = "indexed"
    /\ chunks' = << >>
    /\ outcome' = "none"
    /\ thrown' = "none"
    /\ startLine' = 0
    /\ maxTokens' = 0
    /\ maxLine' = 0
    /\ overlapTokens' = 0
    /\ codeBlocks' = << >>
    /\ UNCHANGED outsideChunker

\* the entry of either function up to the end of the token index loop:
\* getEncoding() returns or constructs the handle, the content is split and
\* every line is encoded
Begin(v, c, cfg) ==
    /\ encoding' = "cl100k_base"
    /\ constructions' = (IF encoding = "null" THEN 1 ELSE 0)
    /\ variant' = v
    /\ content' = c
    /\ config' = cfg
    /\ lines' = Split(c)
    /\ LET index == TokenIndex(Split(c))
       IN  /\ tokenStarts' = index.tokenStarts
           /\ tokenEnds' = index.tokenEnds
           /\ totalTokens' = index.totalTokens
    /\ pc' = "indexed"
    /\ chunks' = << >>
    /\ outcome' = "none"
    /\ thrown' = "none"
    /\ startLine' = 0
    /\ maxTokens' = 0
    /\ maxLine' = 0
    /\ overlapTokens' = 0
    /\ codeBlocks' = << >>
    /\ UNCHANGED outsideChunker

\* a call from the caller's idle state
Enter(v, c, cfg) ==
    /\ pc = "idle"
    /\ Begin(v, c, cfg)
    /\ previous' = NoPrevious

\* splitIntoTokenChunks(content, config) is called
CallChunk ==
    /\ pc = "idle"
    /\ \E c \in CodeContents, cfg \in Configs : Enter("code", c, cfg)
    /\ entry' = "splitIntoTokenChunks"
    /\ filePath' = ""

\* splitDocumentIntoChunks(content, config) is called
CallChunkDocument ==
    /\ pc = "idle"
    /\ \E c \in DocContents, cfg \in DocConfigs : Enter("doc", c, cfg)
    /\ entry' = "splitDocumentIntoChunks"
    /\ filePath' = ""

\* smartChunk(content, filePath, config) is called: it hands content and
\* config to one of the two functions and returns what that function returns
CallSmartChunk ==
    /\ pc = "idle"
    /\ \E p \in FilePaths, c \in SmartContents, cfg \in Configs :
           /\ Enter(IF isDocumentFile(p) THEN "doc" ELSE "code", c, cfg)
           /\ filePath' = p
    /\ entry' = "smartChunk"

\* the caller takes the returned array and makes the same call again, with
\* the same arguments
CallAgain ==
    /\ pc = "done"
    /\ Begin(variant, content, config)
    /\ previous' = [ known |-> TRUE, chunks |-> chunks ]
    /\ UNCHANGED << entry, filePath >>

\* ConstructThrows with a second construction attempt before giving up
ConstructThrowsAfterRetry ==
    /\ pc = "idle"
    /\ encoding = "null"
    /\ \E e \in ConstructErrors : thrown' = e
    /\ constructions' = 2
    /\ outcome' = "threw"
    /\ pc' = "failed"
    /\ chunks' = << >>
    /\ \E f \in Entries : entry' = f
    /\ NoCallLocals
    /\ UNCHANGED encoding

\* a call in which getEncoding() cannot construct the tokenizer: the require or
\* the library's getEncoding throws, nothing catches it, encoding stays null
ConstructThrows ==
    /\ pc = "idle"
    /\ encoding = "null"
    /\ \E e \in ConstructErrors : thrown' = e
    /\ constructions' = 1
    /\ outcome' = "threw"
    /\ pc' = "failed"
    /\ chunks' = << >>
    /\ \E f \in Entries : entry' = f
    /\ NoCallLocals
    /\ UNCHANGED encoding

\* a call in which enc.encode throws on some line: nothing catches it
EncodeThrows ==
    /\ pc = "idle"
    /\ encoding' = "cl100k_base"
    /\ constructions' = (IF encoding = "null" THEN 1 ELSE 0)
    /\ \E e \in EncodeErrors : thrown' = e
    /\ outcome' = "threw"
    /\ pc' = "failed"
    /\ chunks' = << >>
    /\ \E f \in Entries : entry' = f
    /\ NoCallLocals

\* the function returns result
ReturnWith(result) ==
    /\ chunks' = result
    /\ outcome' = "returned"
    /\ pc' = "done"

\* splitIntoTokenChunks after the token index: the empty check, the clamping
\* of the configuration, the single-chunk return, the loop's initialisation
CodeSetup ==
    /\ pc = "indexed"
    /\ variant = "code"
    /\ IF Len(lines) = 0
       THEN /\ ReturnWith(<< >>)
            /\ UNCHANGED << maxTokens, maxLine, overlapTokens >>
       ELSE LET mTokens == ClampMaxTokens(config.chunkMaxTokens)
                mLine == ClampMaxLine(config.chunkMaxLine)
            IN  /\ maxTokens' = mTokens
                /\ maxLine' = mLine
                /\ overlapTokens' = ClampOverlapTokens(config.chunkOverlapTokens, mTokens)
                /\ IF totalTokens <= mTokens /\ Len(lines) <= mLine
                   THEN ReturnWith(<< WholeChunk(content, lines, totalTokens) >>)
                   ELSE /\ pc' = "loop"
                        /\ UNCHANGED << chunks, outcome >>
    /\ UNCHANGED << encoding, entry, filePath, previous, variant, content, config,
                    lines, tokenStarts, tokenEnds, totalTokens, codeBlocks, startLine,
                    thrown, constructions, outsideChunker >>

\* one iteration of the while loop of splitIntoTokenChunks
CodeIterate ==
    /\ pc = "loop"
    /\ variant = "code"
    /\ LET limits == [ maxTokens |-> maxTokens, maxLine |-> maxLine,
                       overlapTokens |-> overlapTokens ]
           maxEndLine == CodeMaxEndLine(tokenStarts, tokenEnds, Len(lines), startLine, limits)
           endLine == CodeEndLine(lines, startLine, maxEndLine)
           pushed == Append(chunks, MakeChunk(lines, tokenStarts, tokenEnds, startLine, endLine))
           nextStartLine == CodeNextStart(lines, tokenStarts, tokenEnds, startLine, endLine, limits)
       IN  IF endLine + 1 >= Len(lines)
           THEN /\ ReturnWith(pushed)
                /\ UNCHANGED startLine
           ELSE /\ startLine' = nextStartLine
                /\ IF nextStartLine < Len(lines)
                   THEN /\ chunks' = pushed
                        /\ UNCHANGED << pc, outcome >>
                   ELSE ReturnWith(pushed)
    /\ UNCHANGED << encoding, entry, filePath, previous, variant, content, config,
                    lines, tokenStarts, tokenEnds, totalTokens, maxTokens, maxLine,
                    overlapTokens, codeBlocks, thrown, constructions, outsideChunker >>

\* splitDocumentIntoChunks after the token index: the empty check, the fenced
\* blocks, the single-chunk return, the loop's initialisation
DocSetup ==
    /\ pc = "indexed"
    /\ variant = "doc"
    /\ IF Len(lines) = 0
       THEN /\ ReturnWith(<< >>)
            /\ UNCHANGED codeBlocks
       ELSE /\ codeBlocks' = findCodeBlocks(lines)
            /\ IF /\ totalTokens <= DOC_CONFIG.maxTokens
                  /\ Len(lines) <= DOC_CONFIG.maxLine
               THEN ReturnWith(<< WholeChunk(content, lines, totalTokens) >>)
               ELSE /\ pc' = "loop"
                    /\ UNCHANGED << chunks, outcome >>
    /\ UNCHANGED << encoding, entry, filePath, previous, variant, content, config,
                    lines, tokenStarts, tokenEnds, totalTokens, maxTokens, maxLine,
                    overlapTokens, startLine, thrown, constructions, outsideChunker >>

\* one iteration of the while loop of splitDocumentIntoChunks
DocIterate ==
    /\ pc = "loop"
    /\ variant = "doc"
    /\ LET limits == DocLimits(tokenEnds, codeBlocks, startLine, At(tokenStarts, startLine))
           maxEndLine == DocMaxEndLine(tokenStarts, tokenEnds, Len(lines), codeBlocks,
                                       startLine, limits)
           endLine == DocEndLine(lines, codeBlocks, startLine, maxEndLine, limits)
           pushed == Append(chunks, MakeChunk(lines, tokenStarts, tokenEnds, startLine, endLine))
           nextStartLine == DocNextStart(lines, tokenStarts, tokenEnds, codeBlocks,
                                         startLine, endLine)
       IN  IF endLine + 1 >= Len(lines)
           THEN /\ ReturnWith(pushed)
                /\ UNCHANGED startLine
           ELSE /\ startLine' = nextStartLine
                /\ IF nextStartLine < Len(lines)
                   THEN /\ chunks' = pushed
                        /\ UNCHANGED << pc, outcome >>
                   ELSE ReturnWith(pushed)
    /\ UNCHANGED << encoding, entry, filePath, previous, variant, content, config,
                    lines, tokenStarts, tokenEnds, totalTokens, maxTokens, maxLine,
                    overlapTokens, codeBlocks, thrown, constructions, outsideChunker >>

\* the caller has taken the result or the error; the call's locals are gone
Finish ==
    /\ pc \in { "done", "failed" }
    /\ pc' = "idle"
    /\ chunks' = << >>
    /\ outcome' = "none"
    /\ thrown' = "none"
    /\ constructions' = 0
    /\ entry' = "none"
    /\ NoCallLocals
    /\ UNCHANGED encoding

(***************************************************************************)
(* The helper functions of the chunker on their own: one call of           *)
(* getBoundaryType, findBestBoundary, findCodeBlocks or findDocBoundary on *)
(* the lines of a short text, with the arguments their callers give them.  *)
(***************************************************************************)
MaxSearchLines == 3  \* helper calls: lines of the text

\* probe when no helper call is being looked at
NoProbe == [ fn |-> "none" ]

\* line texts of every strength of the code scale, and texts that meet the
\* condition of more than one classification rule
ClassifiedTexts ==
    { "", "}", "};", "x;", "WW", "import a;", "from b", "// c;", " */", "* d */" }

\* line texts of every strength of the document scale
DocSearchTexts == { "", "t", "^^^", "~~~ t", "# H", "- i", "---" }

\* the minimum strengths splitIntoTokenChunks searches with: the default of
\* the parameter for the end of a chunk, BlankLine for the next start
SearchMinimums == { Semicolon, BlankLine }

\* getBoundaryType as the loop of findBestBoundary calls it for line i
CallGetBoundaryType ==
    /\ probe = NoProbe
    /\ \E ls \in SeqsUpTo(ClassifiedTexts, MaxSearchLines) : \E i \in 0..(Len(ls) - 1) :
          probe' = [ fn |-> "getBoundaryType", lines |-> ls, index |-> i,
                     result |-> BoundaryAt(ls, i) ]
    /\ UNCHANGED outsideHelper

CallFindBestBoundary ==
    /\ probe = NoProbe
    /\ \E ls \in SeqsUpTo(ClassifiedTexts, MaxSearchLines) :
       \E searchStart \in 0..Len(ls) : \E searchEnd \in searchStart..Len(ls) :
       \E minBoundaryType \in SearchMinimums :
          probe' = [ fn |-> "findBestBoundary", lines |-> ls,
                     searchStart |-> searchStart, searchEnd |-> searchEnd,
                     minBoundaryType |-> minBoundaryType,
                     result |-> findBestBoundary(ls, searchStart, searchEnd,
                                                 minBoundaryType) ]
    /\ UNCHANGED outsideHelper

CallFindCodeBlocks ==
    /\ probe = NoProbe
    /\ \E ls \in SeqsUpTo(DocSearchTexts, MaxSearchLines) :
          probe' = [ fn |-> "findCodeBlocks", lines |-> ls,
                     result |-> findCodeBlocks(ls) ]
    /\ UNCHANGED outsideHelper

\* findDocBoundary with the ranges of findCodeBlocks, as splitDocumentIntoChunks
\* calls it
CallFindDocBoundary ==
    /\ probe = NoProbe
    /\ \E ls \in SeqsUpTo(DocSearchTexts, MaxSearchLines) :
       \E searchStart \in 0..Len(ls) : \E searchEnd \in searchStart..Len(ls) :
          probe' = [ fn |-> "findDocBoundary", lines |-> ls,
                     searchStart |-> searchStart, searchEnd |-> searchEnd,
                     codeBlocks |-> findCodeBlocks(ls),
                     result |-> findDocBoundary(ls, searchStart, searchEnd,
                                                findCodeBlocks(ls)) ]
    /\ UNCHANGED outsideHelper

\* the helper has returned and its result has been looked at
HelperReturn ==
    /\ probe # NoProbe
    /\ probe' = NoProbe
    /\ UNCHANGED outsideHelper

HelperNext ==
    \/ CallGetBoundaryType
    \/ CallFindBestBoundary
    \/ CallFindCodeBlocks
    \/ CallFindDocBoundary
    \/ HelperReturn

(***************************************************************************)
(* VectorDbService (src/unnamed/part_001): initialize() and close() of one *)
(* service object, called by several callers that do not wait for each     *)
(* other.  A call runs from one await to the next without interruption:    *)
(* the steps of a call are its entry up to the call of                     *)
(* DuckDBInstance.create, the continuation after create resolves, the one  *)
(* after connect resolves, the one after the first statement on the        *)
(* connection resolves, and the one after the last statement resolves.     *)
(* DuckDBService.initialize (src/unnamed/part_000) has the same guard and  *)
(* the same sequence with createTables as its schema setup.  An operation  *)
(* in flight on an instance or a connection that close() closes rejects.   *)
(***************************************************************************)
MaxCallers == 2  \* callers of initialize() on one service object
MaxOpens == 3    \* DuckDBInstance.create calls in one run

Callers == 1..MaxCallers

\* the service object after construction, and the counts after a close()
ClosedService ==
    /\ initialized = FALSE
    /\ instance = Null
    /\ connection = Null
    /\ callPc = [c \in Callers |-> "idle"]
    /\ mine = [c \in Callers |-> Null]
    /\ using = [c \in Callers |-> Null]
    /\ opened = 0
    /\ closedObjects = {}
    /\ instancesCreated = 0
    /\ connectionsCreated = 0
    /\ schemaSetups = 0

\* initialize() up to its first await: the guard on this.initialized, then
\* DuckDBInstance.create(this.dbPath)
InitializeEnter(c) ==
    /\ callPc[c] = "idle"
    /\ IF initialized
       THEN /\ callPc' = [callPc EXCEPT ![c] = "returned"]
            /\ UNCHANGED << mine, opened >>
       ELSE /\ opened < MaxOpens
            /\ opened' = opened + 1
            /\ mine' = [mine EXCEPT ![c] = opened + 1]
            /\ callPc' = [callPc EXCEPT ![c] = "creating"]
    /\ UNCHANGED << initialized, instance, connection, using, closedObjects,
                    instancesCreated, connectionsCreated, schemaSetups,
                    outsideService >>

\* this.instance = await DuckDBInstance.create(...), then this.instance.connect()
CreateResolves(c) ==
    /\ callPc[c] = "creating"
    /\ instance' = mine[c]
    /\ instancesCreated' = instancesCreated + 1
    /\ callPc' = [callPc EXCEPT ![c] = "connecting"]
    /\ UNCHANGED << initialized, connection, mine, using, opened, closedObjects,
                    connectionsCreated, schemaSetups, outsideService >>

\* this.connection = await this.instance.connect(), then the first statement
\* on this.connection
ConnectResolves(c) ==
    /\ callPc[c] = "connecting"
    /\ IF mine[c] \in closedObjects
       THEN /\ callPc' = [callPc EXCEPT ![c] = "failed"]
            /\ UNCHANGED << connection, using, connectionsCreated >>
       ELSE /\ connection' = mine[c]
            /\ using' = [using EXCEPT ![c] = mine[c]]
            /\ connectionsCreated' = connectionsCreated + 1
            /\ callPc' = [callPc EXCEPT ![c] = "loading"]
    /\ UNCHANGED << initialized, instance, mine, opened, closedObjects,
                    instancesCreated, schemaSetups, outsideService >>

\* INSTALL vss has resolved: the statements that follow run on this.connection
\* as it is now, up to needsMigration(), migrate() and createHnswIndex()
SchemaSetupStarts(c) ==
    /\ callPc[c] = "loading"
    /\ IF using[c] \in closedObjects \/ connection = Null
       THEN /\ callPc' = [callPc EXCEPT ![c] = "failed"]
            /\ UNCHANGED << using, schemaSetups >>
       ELSE /\ using' = [using EXCEPT ![c] = connection]
            /\ schemaSetups' = schemaSetups + 1
            /\ callPc' = [callPc EXCEPT ![c] = "settingUp"]
    /\ UNCHANGED << initialized, instance, connection, mine, opened, closedObjects,
                    instancesCreated, connectionsCreated, outsideService >>

\* createHnswIndex() has resolved: this.initialized = true
SchemaSetupResolves(c) ==
    /\ callPc[c] = "settingUp"
    /\ IF using[c] \in closedObjects
       THEN /\ callPc' = [callPc EXCEPT ![c] = "failed"]
            /\ UNCHANGED initialized
       ELSE /\ initialized' = TRUE
            /\ callPc' = [callPc EXCEPT ![c] = "returned"]
    /\ UNCHANGED << instance, connection, mine, using, opened, closedObjects,
                    instancesCreated, connectionsCreated, schemaSetups,
                    outsideService >>

\* the caller has taken the result or the error of its call
InitializeReturn(c) ==
    /\ callPc[c] \in { "returned", "failed" }
    /\ callPc' = [callPc EXCEPT ![c] = "idle"]
    /\ mine' = [mine EXCEPT ![c] = Null]
    /\ using' = [using EXCEPT ![c] = Null]
    /\ UNCHANGED << initialized, instance, connection, opened, closedObjects,
                    instancesCreated, connectionsCreated, schemaSetups,
                    outsideService >>

\* close(): closes this.connection and this.instance when they are set; the
\* body has no await
Close ==
    /\ instance # Null \/ connection # Null \/ initialized
    /\ closedObjects' = closedObjects \cup ({ instance, connection } \ { Null })
    /\ connection' = Null
    /\ instance' = Null
    /\ initialized' = FALSE
    /\ instancesCreated' = 0
    /\ connectionsCreated' = 0
    /\ schemaSetups' = 0
    /\ UNCHANGED << callPc, mine, using, opened, outsideService >>

ServiceNext ==
    \/ \E c \in Callers :
          \/ InitializeEnter(c)
          \/ CreateResolves(c)
          \/ ConnectResolves(c)
          \/ SchemaSetupStarts(c)
          \/ SchemaSetupResolves(c)
          \/ InitializeReturn(c)
    \/ Close

(***************************************************************************)
(* IndexTreeDataProvider, the tree data provider of the index sidebar, and *)
(* its two caches.  An entry is its relativePath, a sequence of path       *)
(* segments; a Map is a function on the keys it holds.  One getChildren    *)
(* call at a time waits for getIndexEntries; the methods of the provider   *)
(* and the status events may run while it waits.  IndexingService is not   *)
(* part of the source at hand: the index changes while an indexing run is  *)
(* on, a run begins with a status whose isIndexing is true and ends with   *)
(* one whose isIndexing is false, and getIndexEntries resolves with the    *)
(* entries the index holds then.  The chunk level of getChildren, which    *)
(* touches neither cache, is left out.                                     *)
(***************************************************************************)
MaxFolders == 1  \* workspace folders
MaxFiles == 2    \* files that may be in the index of a workspace

WorkspaceFolders == 1..MaxFolders

\* relativePath values: a file of the root, of a folder, of a nested folder
RelativePaths == << << "a.ts" >>, << "d", "b.ts" >>, << "d", "e", "c.ts" >> >>
IndexedFiles == { RelativePaths[i] : i \in 1..MaxFiles }

\* new Map()
EmptyMap == [ w \in {} |-> {} ]

\* map.set(key, value)
MapSet(map, key, value) ==
    [ w \in (DOMAIN map) \cup { key } |-> IF w = key THEN value ELSE map[w] ]

\* path.dirname(entry.relativePath), split into segments; '.' is << >>
dirname(relativePath) == SubSeq(relativePath, 1, Len(relativePath) - 1)

\* buildFolderTree(entries): the fullPath of every node the loop creates and
\* the files pushed to the root and to each node
buildFolderTree(entries) ==
    LET created ==
            UNION { { SubSeq(p, 1, k) : k \in 1..(Len(p) - 1) } : p \in entries }
    IN  [ children |-> created,
          files |-> [ folder \in created \cup { << >> } |->
                          { p \in entries : dirname(p) = folder } ] ]

NoCall == [ kind |-> "none", workspace |-> 0 ]

\* the provider after its constructor
NewProvider ==
    /\ cachedEntries = EmptyMap
    /\ cachedFolderTrees = EmptyMap
    /\ groupByFolder = TRUE
    /\ showChunks = TRUE
    /\ treeDataChanged = FALSE
    /\ childrenCall = NoCall

EmptyIndex ==
    /\ indexEntries = [ w \in WorkspaceFolders |-> {} ]
    /\ isIndexing = FALSE

\* clearCache()
clearCache ==
    /\ cachedEntries' = EmptyMap
    /\ cachedFolderTrees' = EmptyMap

\* refresh(): fires onDidChangeTreeData
refresh == treeDataChanged' = TRUE

ClearCache ==
    /\ clearCache
    /\ UNCHANGED << indexEntries, isIndexing, groupByFolder, showChunks, treeDataChanged,
                    childrenCall, outsideTree >>

Refresh ==
    /\ refresh
    /\ UNCHANGED << indexEntries, isIndexing, cachedEntries, cachedFolderTrees, groupByFolder,
                    showChunks, childrenCall, outsideTree >>

SetGroupByFolder ==
    /\ \E enabled \in BOOLEAN : groupByFolder' = enabled
    /\ refresh
    /\ UNCHANGED << indexEntries, isIndexing, cachedEntries, cachedFolderTrees, showChunks,
                    childrenCall, outsideTree >>

SetShowChunks ==
    /\ \E enabled \in BOOLEAN : showChunks' = enabled
    /\ refresh
    /\ UNCHANGED << indexEntries, isIndexing, cachedEntries, cachedFolderTrees, groupByFolder,
                    childrenCall, outsideTree >>

\* a status whose isIndexing is true: the listener of the constructor does
\* nothing
StartIndexing ==
    /\ ~isIndexing
    /\ isIndexing' = TRUE
    /\ UNCHANGED << indexEntries, cachedEntries, cachedFolderTrees, groupByFolder, showChunks,
                    treeDataChanged, childrenCall, outsideTree >>

\* the indexing run adds a file to the index or removes one from it
IndexChanges ==
    /\ isIndexing
    /\ \E w \in WorkspaceFolders : \E p \in IndexedFiles :
          indexEntries' =
              [indexEntries EXCEPT ![w] = IF p \in @ THEN @ \ { p } ELSE @ \cup { p }]
    /\ UNCHANGED << isIndexing, cachedEntries, cachedFolderTrees, groupByFolder,
                    showChunks, treeDataChanged, childrenCall, outsideTree >>

\* a status whose isIndexing is false: the listener clears the caches and
\* refreshes
FinishIndexing ==
    /\ isIndexing
    /\ isIndexing' = FALSE
    /\ clearCache
    /\ refresh
    /\ UNCHANGED << indexEntries, groupByFolder, showChunks, childrenCall, outsideTree >>

\* getChildren(): the root level up to the first await
GetChildrenRoot ==
    /\ childrenCall = NoCall
    /\ childrenCall' = [ kind |-> "root", workspace |-> 1 ]
    /\ treeDataChanged' = FALSE
    /\ UNCHANGED << indexEntries, isIndexing, cachedEntries, cachedFolderTrees, groupByFolder,
                    showChunks, outsideTree >>

\* the root level goes on to the next workspace folder, or returns its items
RootNextFolder ==
    childrenCall' =
        IF childrenCall.workspace < MaxFolders
        THEN [ kind |-> "root", workspace |-> childrenCall.workspace + 1 ]
        ELSE NoCall

\* root level: getIndexEntries has resolved, this.cachedEntries.set
RootEntriesResolve ==
    /\ childrenCall.kind = "root"
    /\ cachedEntries' =
           MapSet(cachedEntries, childrenCall.workspace,
                  indexEntries[childrenCall.workspace])
    /\ RootNextFolder
    /\ UNCHANGED << indexEntries, isIndexing, cachedFolderTrees, groupByFolder, showChunks,
                    treeDataChanged, outsideTree >>

\* root level: getIndexEntries has thrown, the catch pushes an error item
RootEntriesReject ==
    /\ childrenCall.kind = "root"
    /\ RootNextFolder
    /\ UNCHANGED << indexEntries, isIndexing, cachedEntries, cachedFolderTrees, groupByFolder,
                    showChunks, treeDataChanged, outsideTree >>

\* workspace level once it has its entries: the folder tree is built when
\* there are entries, the view groups by folder and no tree is cached
WorkspaceItems(w, entries) ==
    cachedFolderTrees' =
        IF entries # {} /\ groupByFolder /\ w \notin DOMAIN cachedFolderTrees
        THEN MapSet(cachedFolderTrees, w, buildFolderTree(entries))
        ELSE cachedFolderTrees

\* getChildren(element) with element.workspaceInfo
GetChildrenWorkspace ==
    /\ childrenCall = NoCall
    /\ \E w \in WorkspaceFolders :
          IF w \in DOMAIN cachedEntries
          THEN /\ WorkspaceItems(w, cachedEntries[w])
               /\ UNCHANGED childrenCall
          ELSE /\ childrenCall' = [ kind |-> "workspace", workspace |-> w ]
               /\ UNCHANGED cachedFolderTrees
    /\ UNCHANGED << indexEntries, isIndexing, cachedEntries, groupByFolder, showChunks,
                    treeDataChanged, outsideTree >>

\* workspace level: getIndexEntries has resolved
WorkspaceEntriesResolve ==
    /\ childrenCall.kind = "workspace"
    /\ cachedEntries' =
           MapSet(cachedEntries, childrenCall.workspace,
                  indexEntries[childrenCall.workspace])
    /\ WorkspaceItems(childrenCall.workspace, indexEntries[childrenCall.workspace])
    /\ childrenCall' = NoCall
    /\ UNCHANGED << indexEntries, isIndexing, groupByFolder, showChunks, treeDataChanged,
                    outsideTree >>

\* getChildren(element) with element.folderPath and element.workspacePath
GetChildrenFolder ==
    /\ childrenCall = NoCall
    /\ \E w \in WorkspaceFolders :
          IF w \in DOMAIN cachedFolderTrees
          THEN UNCHANGED << cachedFolderTrees, childrenCall >>
          ELSE IF w \in DOMAIN cachedEntries
          THEN /\ cachedFolderTrees' =
                      MapSet(cachedFolderTrees, w, buildFolderTree(cachedEntries[w]))
               /\ UNCHANGED childrenCall
          ELSE /\ childrenCall' = [ kind |-> "folder", workspace |-> w ]
               /\ UNCHANGED cachedFolderTrees
    /\ UNCHANGED << indexEntries, isIndexing, cachedEntries, groupByFolder, showChunks,
                    treeDataChanged, outsideTree >>

\* folder level: getIndexEntries has resolved
FolderEntriesResolve ==
    /\ childrenCall.kind = "folder"
    /\ cachedEntries' =
           MapSet(cachedEntries, childrenCall.workspace,
                  indexEntries[childrenCall.workspace])
    /\ cachedFolderTrees' =
           MapSet(cachedFolderTrees, childrenCall.workspace,
                  buildFolderTree(indexEntries[childrenCall.workspace]))
    /\ childrenCall' = NoCall
    /\ UNCHANGED << indexEntries, isIndexing, groupByFolder, showChunks, treeDataChanged,
                    outsideTree >>

\* workspace or folder level: getIndexEntries has thrown and the call rejects
EntriesReject ==
    /\ childrenCall.kind \in { "workspace", "folder" }
    /\ childrenCall' = NoCall
    /\ UNCHANGED << indexEntries, isIndexing, cachedEntries, cachedFolderTrees, groupByFolder,
                    showChunks, treeDataChanged, outsideTree >>

TreeNext ==
    \/ GetChildrenRoot
    \/ RootEntriesResolve
    \/ RootEntriesReject
    \/ GetChildrenWorkspace
    \/ WorkspaceEntriesResolve
    \/ GetChildrenFolder
    \/ FolderEntriesResolve
    \/ EntriesReject
    \/ ClearCache
    \/ Refresh
    \/ SetGroupByFolder
    \/ SetShowChunks
    \/ StartIndexing
    \/ IndexChanges
    \/ FinishIndexing

(***************************************************************************)
(* MigrationService (src/unnamed/part_002) over the database it is given.  *)
(* The database is the set of its tables, the versions recorded in         *)
(* schema_migrations, and the distinct workspace_path values of            *)
(* indexed_files and of workspaces.  A statement either succeeds or        *)
(* throws; a migration that throws leaves the statements before it done    *)
(* (the service opens no transaction).  The catch of getCurrentVersion,    *)
(* which answers 0 when its own queries throw, is left out.                *)
(***************************************************************************)
SCHEMA_VERSION == 2

\* the number of workspace paths a v0.0.8 database may hold files of
MaxWorkspaces == 2

WorkspacePaths == 1..MaxWorkspaces

\* getMigrations(): the versions of the migrations, in the order of the array
getMigrations == << 1, 2 >>

Greatest(S) == CHOOSE v \in S : \A w \in S : w <= v

getCurrentVersion(tbls, recs) ==
    IF "schema_migrations" \notin tbls
    THEN IF "indexed_files" \in tbls THEN 1 ELSE 0
    ELSE IF recs = {} THEN 0 ELSE Greatest(recs)

needsMigration(tbls, recs) == getCurrentVersion(tbls, recs) < SCHEMA_VERSION

Outcome(ok, tbls, rows) == [ok |-> ok, tables |-> tbls, workspaceRows |-> rows]

\* migration 1, up: CREATE TABLE IF NOT EXISTS indexed_files, then code_chunks
\* and its indexes
InitialSchemaUp(tbls, rows) ==
    { Outcome(TRUE, tbls \cup { "indexed_files", "code_chunks" }, rows),
      Outcome(FALSE, tbls, rows),
      Outcome(FALSE, tbls \cup { "indexed_files" }, rows) }

\* migration 2, up: creates workspaces, inserts one row for each distinct
\* workspace_path of indexed_files (the INSERT has no ON CONFLICT clause and
\* workspace_id is the primary key), then alters and updates indexed_files
HierarchyUp(tbls, paths, rows) ==
    LET created == tbls \cup { "workspaces" } IN
    { Outcome(FALSE, tbls, rows) } \cup
    ( IF "indexed_files" \notin tbls \/ "code_chunks" \notin tbls
      THEN { Outcome(FALSE, created, rows) }
      ELSE { Outcome(FALSE, created, rows \cup inserted) :
                 inserted \in { S \in SUBSET paths : S \cap rows = {} /\ S # paths } }
           \cup
           ( IF paths \cap rows = {}
             THEN { Outcome(TRUE, created, rows \cup paths),
                    Outcome(FALSE, created, rows \cup paths) }
             ELSE {} ) )

up(version, tbls, paths, rows) ==
    IF version = 1 THEN InitialSchemaUp(tbls, rows) ELSE HierarchyUp(tbls, paths, rows)

\* down of migration 1 drops code_chunks and indexed_files; down of migration
\* 2 drops workspaces and leaves the added columns
down(version, db) ==
    IF version = 1
    THEN [db EXCEPT !.tables = @ \ { "code_chunks", "indexed_files" },
                    !.indexedPaths = {}]
    ELSE [db EXCEPT !.tables = @ \ { "workspaces" }, !.workspaceRows = {}]

\* one iteration of the loop of rollback(targetVersion) over the reversed
\* migrations, i counting down from the last one
RECURSIVE rollbackFrom(_, _, _, _)
rollbackFrom(i, targetVersion, current, db) ==
    IF i = 0 \/ ~db.ok THEN db
    ELSE LET version == getMigrations[i] IN
         IF version > targetVersion /\ version <= current
         THEN LET undone == down(version, db) IN
              rollbackFrom(i - 1, targetVersion, current,
                  IF "schema_migrations" \in undone.tables
                  THEN [undone EXCEPT !.recorded = @ \ { version }]
                  ELSE [undone EXCEPT !.ok = FALSE])
         ELSE rollbackFrom(i - 1, targetVersion, current, db)

\* no call of the service is running
IdleService ==
    /\ migPc = "idle"
    /\ currentVersion = 0
    /\ migIndex = 0
    /\ applied = << >>
    /\ calledOn = {}

FreshDatabase ==
    /\ tables = {}
    /\ recorded = {}
    /\ indexedPaths = {}
    /\ workspaceRows = {}

\* a database written by v0.0.8: indexed_files and code_chunks, no
\* schema_migrations
LegacyDatabase(paths) ==
    /\ tables = { "indexed_files", "code_chunks" }
    /\ recorded = {}
    /\ indexedPaths = paths
    /\ workspaceRows = {}

Init ==
    /\ ChunkerInit
    /\ FreshDatabase
    /\ IdleService
    /\ upToDate = FALSE
    /\ probe = NoProbe
    /\ ClosedService
    /\ NewProvider
    /\ EmptyIndex

MigrationInit ==
    /\ ChunkerInit
    /\ FreshDatabase \/ \E paths \in SUBSET WorkspacePaths : LegacyDatabase(paths)
    /\ IdleService
    /\ upToDate = FALSE
    /\ probe = NoProbe
    /\ ClosedService
    /\ NewProvider
    /\ EmptyIndex

\* ensureMigrationsTable(), the first statement of migrate()
ensureMigrationsTable ==
    /\ tables' = tables \cup { "schema_migrations" }
    /\ migPc' = "ensured"
    /\ applied' = << >>
    /\ calledOn' = tables
    /\ UNCHANGED << recorded, indexedPaths, workspaceRows, currentVersion, migIndex,
                    upToDate, outsideMigration >>

\* VectorDbService.initialize(): migrate() when needsMigration() says so
Initialize ==
    /\ migPc = "idle"
    /\ needsMigration(tables, recorded)
    /\ ensureMigrationsTable

Migrate ==
    /\ migPc = "idle"
    /\ ensureMigrationsTable

\* const currentVersion = await this.getCurrentVersion()
MigrateReadVersion ==
    /\ migPc = "ensured"
    /\ currentVersion' = getCurrentVersion(tables, recorded)
    /\ migIndex' = 1
    /\ migPc' = "loop"
    /\ UNCHANGED << tables, recorded, indexedPaths, workspaceRows, applied, calledOn,
                    upToDate, outsideMigration >>

\* one iteration of the for loop up to the end of migration.up
MigrateUp ==
    /\ migPc = "loop"
    /\ migIndex <= Len(getMigrations)
    /\ IF getMigrations[migIndex] > currentVersion
       THEN \E o \in up(getMigrations[migIndex], tables, indexedPaths, workspaceRows) :
               /\ tables' = o.tables
               /\ workspaceRows' = o.workspaceRows
               /\ migPc' = (IF o.ok THEN "record" ELSE "failed")
               /\ UNCHANGED migIndex
       ELSE /\ migIndex' = migIndex + 1
            /\ UNCHANGED << tables, workspaceRows, migPc >>
    /\ UNCHANGED << recorded, indexedPaths, currentVersion, applied, calledOn,
                    upToDate, outsideMigration >>

\* recordMigration's INSERT wrote nothing and reported no error
recordMigrationWritesNothing(version) ==
    \/ /\ recorded' = recorded
       /\ applied' = Append(applied, version)
       /\ migIndex' = migIndex + 1
       /\ migPc' = "loop"
    \/ /\ migPc' = "failed"
       /\ UNCHANGED << recorded, applied, migIndex >>

\* the INSERT into schema_migrations, whose version is the primary key
recordMigration(version) ==
    \/ /\ version \notin recorded
       /\ recorded' = recorded \cup { version }
       /\ applied' = Append(applied, version)
       /\ migIndex' = migIndex + 1
       /\ migPc' = "loop"
    \/ /\ migPc' = "failed"
       /\ UNCHANGED << recorded, applied, migIndex >>

MigrateRecord ==
    /\ migPc = "record"
    /\ recordMigration(getMigrations[migIndex])
    /\ UNCHANGED << tables, indexedPaths, workspaceRows, currentVersion, calledOn,
                    upToDate, outsideMigration >>

\* the loop is over: migrate() resolves
MigrateReturn ==
    /\ migPc = "loop"
    /\ migIndex > Len(getMigrations)
    /\ migPc' = "migrated"
    /\ UNCHANGED << tables, recorded, indexedPaths, workspaceRows, currentVersion,
                    migIndex, applied, calledOn, upToDate, outsideMigration >>

Rollback ==
    /\ migPc = "idle"
    /\ \E targetVersion \in 0..SCHEMA_VERSION :
          LET current == getCurrentVersion(tables, recorded)
              after == rollbackFrom(Len(getMigrations), targetVersion, current,
                           [ok |-> TRUE, tables |-> tables, recorded |-> recorded,
                            indexedPaths |-> indexedPaths,
                            workspaceRows |-> workspaceRows])
          IN /\ tables' = after.tables
             /\ recorded' = after.recorded
             /\ indexedPaths' = after.indexedPaths
             /\ workspaceRows' = after.workspaceRows
             /\ currentVersion' = current
             /\ migPc' = (IF after.ok THEN "rolledBack" ELSE "failed")
    /\ upToDate' = FALSE
    /\ UNCHANGED << migIndex, applied, calledOn, outsideMigration >>

\* the caller has taken the result or the error of the call
MigrationEnd ==
    /\ migPc \in { "migrated", "rolledBack", "failed" }
    /\ migPc' = "idle"
    /\ upToDate' = (migPc = "migrated" \/ (migPc = "failed" /\ upToDate))
    /\ currentVersion' = 0
    /\ migIndex' = 0
    /\ applied' = << >>
    /\ calledOn' = {}
    /\ UNCHANGED << tables, recorded, indexedPaths, workspaceRows, outsideMigration >>

MigrationNext ==
    \/ Initialize
    \/ Migrate
    \/ MigrateReadVersion
    \/ MigrateUp
    \/ MigrateRecord
    \/ MigrateReturn
    \/ Rollback
    \/ MigrationEnd

MigrationSpec == MigrationInit /\ [][MigrationNext]_vars

ServiceSpec == Init /\ [][ServiceNext]_vars

\* the sidebar is created over an index that may hold files already
TreeInit ==
    /\ ChunkerInit
    /\ FreshDatabase
    /\ IdleService
    /\ upToDate = FALSE
    /\ probe = NoProbe
    /\ ClosedService
    /\ NewProvider
    /\ indexEntries \in [ WorkspaceFolders -> SUBSET IndexedFiles ]
    /\ isIndexing = FALSE

TreeSpec == TreeInit /\ [][TreeNext]_vars

HelperSpec == Init /\ [][HelperNext]_vars

Next ==
    \/ CallChunk
    \/ CallChunkDocument
    \/ CallSmartChunk
    \/ CallAgain
    \/ ConstructThrows
    \/ EncodeThrows
    \/ CodeSetup
    \/ CodeIterate
    \/ DocSetup
    \/ DocIterate
    \/ Finish

Spec == Init /\ [][Next]_vars

\* the next step of a call that has been entered: its setup or one iteration
\* of its while loop
Running == CodeSetup \/ CodeIterate \/ DocSetup \/ DocIterate

\* one call of an exported function, from its entry on
OneCall == CallChunk \/ CallChunkDocument \/ CallSmartChunk \/ Running

\* The behaviours of one call that has been entered and runs on: the setup and
\* the iterations of the while loop are synchronous code of one function.  The
\* fairness condition is WF_vars(Running) with ENABLED <<Running>>_vars
\* written out: Running is defined for every state in which a call is
\* between its entry and its return, and it changes pc or chunks.
FairSpec ==
    /\ Init
    /\ [][OneCall]_vars
    /\ ([]<>~(pc \in { "indexed", "loop" }) \/ []<><<Running>>_vars)

(***************************************************************************)
(* Vocabulary of the properties.                                           *)
(***************************************************************************)
\* the call of variant v has returned its chunk array
Returned(v) == pc = "done" /\ outcome = "returned" /\ variant = v

\* chunks are being pushed or have been returned
Emitting == pc \in { "loop", "done" }

\* the 1-based line l lies in some chunk of cs
LineCovered(cs, l) == \E k \in 1..Len(cs) : cs[k].lineStart <= l /\ l <= cs[k].lineEnd

\* the per-line token counts of the 1-based lines from..to of ls, summed
RECURSIVE SumTokens(_, _, _)
SumTokens(ls, from, to) ==
    IF from > to THEN 0 ELSE EncodeLen(ls[from]) + SumTokens(ls, from + 1, to)

\* the fenced blocks closed by a fence line that fit the code-block budget
FittingBlocks ==
    { b \in { codeBlocks[k] : k \in 1..Len(codeBlocks) } :
        /\ b[1] < b[2]
        /\ isCodeFence(At(lines, b[2]))
        /\ SumTokens(lines, b[1] + 1, b[2] + 1) <= 512
        /\ b[2] - b[1] + 1 <= 30 }

\* the 0-based line i lies strictly between the fences of a fitting block
InsideFittingBlock(i) == \E b \in FittingBlocks : b[1] < i /\ i < b[2]

(***************************************************************************)
(* C1 (document coverage): every line 1..totalLines of the input of        *)
(* splitDocumentIntoChunks lies in some returned chunk.  The code skips    *)
(* one blank line after a chunk that ended at its window's end, so this    *)
(* is violated.                                                            *)
(***************************************************************************)
C1_DocCoverage ==
    Returned("doc") => \A l \in 1..Len(lines) : LineCovered(chunks, l)

(***************************************************************************)
(* C2 (code coverage): in the array returned by splitIntoTokenChunks the   *)
(* first chunk starts at line 1, every later chunk starts at most one line *)
(* after the previous chunk's end, the last chunk ends at the last line,   *)
(* and so every line 1..totalLines lies in some chunk.                     *)
(***************************************************************************)
C2_CodeCoverage ==
    Returned("code") =>
        /\ Len(chunks) >= 1
        /\ chunks[1].lineStart = 1
        /\ \A k \in 2..Len(chunks) : chunks[k].lineStart <= chunks[k - 1].lineEnd + 1
        /\ chunks[Len(chunks)].lineEnd = Len(lines)
        /\ \A l \in 1..Len(lines) : LineCovered(chunks, l)

\* a code call that returned three or more chunks, two of them overlapping
C2_Witness ==
    /\ Returned("code")
    /\ Len(chunks) >= 3
    /\ \E k \in 2..Len(chunks) : chunks[k].lineStart <= chunks[k - 1].lineEnd

(***************************************************************************)
(* C3 (fence containment): no chunk returned by splitDocumentIntoChunks    *)
(* ends or starts on a line strictly between the opening and the closing   *)
(* fence of a block that fits the code-block budget (512 tokens, 30        *)
(* lines).  The window extension checks such a block against the remaining *)
(* tokens only, so the 8-line ceiling cuts it; this is violated.           *)
(***************************************************************************)
C3_FenceContainment ==
    Returned("doc") =>
        \A k \in 1..Len(chunks) :
            /\ ~InsideFittingBlock(chunks[k].lineEnd - 1)
            /\ ~InsideFittingBlock(chunks[k].lineStart - 1)

(***************************************************************************)
(* C4 (progress): in both variants every chunk starts on a later line than *)
(* the chunk pushed before it.                                             *)
(***************************************************************************)
C4_Progress ==
    Emitting => \A k \in 2..Len(chunks) : chunks[k].lineStart > chunks[k - 1].lineStart

\* a returned array of three or more chunks in which the overlap reached back
\* to the previous start and the forced progress moved the cursor one line on
C4_Witness ==
    /\ pc = "done"
    /\ Len(chunks) >= 3
    /\ \E k \in 2..Len(chunks) :
           /\ chunks[k].lineStart = chunks[k - 1].lineStart + 1
           /\ chunks[k - 1].lineEnd >= chunks[k].lineStart

(***************************************************************************)
(* C5 (empty input): a call on the empty content returns no chunk.         *)
(* ''.split('\n') is [''], one empty line, so the length-0 guards never    *)
(* fire and the single-chunk return answers with one empty chunk; this is  *)
(* violated.                                                               *)
(***************************************************************************)
C5_EmptyInput ==
    (pc = "done" /\ content = "") => (outcome = "returned" /\ chunks = << >>)

\* the number of line feeds in s
RECURSIVE LineFeeds(_)
LineFeeds(s) ==
    IF Len(s) = 0 THEN 0
    ELSE (IF CharAt(s, 1) = "\n" THEN 1 ELSE 0) + LineFeeds(SubSeq(s, 2, Len(s)))

\* raw clamped into [lo, hi], as the claims word it
Clamped(raw, lo, hi) == IF raw < lo THEN lo ELSE IF raw > hi THEN hi ELSE raw

(***************************************************************************)
(* C6 (single-chunk shortcut): when the total token count is at most the   *)
(* clamped token ceiling and the line count at most the clamped line       *)
(* ceiling, splitIntoTokenChunks returns exactly one chunk: lines          *)
(* 1..totalLines, tokens 0..totalTokens, content the whole input.          *)
(***************************************************************************)
C6_SingleChunk ==
    ( /\ Returned("code")
      /\ SumTokens(lines, 1, Len(lines)) <= Clamped(config.chunkMaxTokens, 256, 2048)
      /\ LineFeeds(content) + 1 <= Clamped(config.chunkMaxLine, 10, 200) )
    => chunks = << [ content |-> content,
                     lineStart |-> 1,
                     lineEnd |-> LineFeeds(content) + 1,
                     tokenStart |-> 0,
                     tokenEnd |-> SumTokens(lines, 1, Len(lines)) ] >>

\* a code call on several lines with tokens that fitted the limits
C6_Witness ==
    /\ Returned("code")
    /\ Len(lines) >= 3
    /\ totalTokens > 130
    /\ totalTokens <= maxTokens
    /\ Len(lines) <= maxLine
    /\ Len(chunks) = 1

(***************************************************************************)
(* C7 (token accounting): for every chunk of either variant, tokenEnd -    *)
(* tokenStart is the sum of the per-line token counts of its lines, and    *)
(* tokenStart is the sum of the per-line token counts of the lines before  *)
(* its first line.                                                         *)
(***************************************************************************)
C7_TokenAccounting ==
    Emitting =>
        \A k \in 1..Len(chunks) :
            /\ chunks[k].tokenEnd - chunks[k].tokenStart =
                   SumTokens(lines, chunks[k].lineStart, chunks[k].lineEnd)
            /\ chunks[k].tokenStart = SumTokens(lines, 1, chunks[k].lineStart - 1)

\* a returned array whose later chunk spans several lines and starts past token 0
C7_Witness ==
    /\ pc = "done"
    /\ \E k \in 2..Len(chunks) :
           /\ chunks[k].tokenStart > 0
           /\ chunks[k].lineEnd > chunks[k].lineStart
           /\ chunks[k].tokenEnd > chunks[k].tokenStart

(***************************************************************************)
(* C8 (boundary-preferring split).  The input is two functions separated   *)
(* by one blank line, with more tokens than the token ceiling.             *)
(***************************************************************************)
TwoFunctionCall ==
    /\ variant = "code"
    /\ Emitting
    /\ lines \in TwoFunctionLines
    /\ totalTokens > maxTokens
    /\ Len(chunks) >= 1

\* the 1-based number of the blank line between the two functions
BlankLineNumber == CHOOSE l \in 1..Len(lines) : lines[l] = ""

\* the number of lines of the first window: line 1, then every further line
\* while tokens and lines stay within the ceilings
FirstWindowLines ==
    CHOOSE w \in 1..Len(lines) :
        /\ \A m \in 2..w : SumTokens(lines, 1, m) <= maxTokens /\ m <= maxLine
        /\ w < Len(lines) => (SumTokens(lines, 1, w + 1) > maxTokens \/ w + 1 > maxLine)

\* the first 1-based line of the last 30% of the first window
FirstSearchLine == FirstWindowLines - ((3 * FirstWindowLines + 9) \div 10) + 1

\* the closing brace of the first function lies in the search range and no
\* later line of the window is a FunctionEnd or ImportBlockEnd boundary
BraceInSearchRange ==
    /\ FirstSearchLine <= BlankLineNumber - 1
    /\ BlankLineNumber - 1 <= FirstWindowLines
    /\ \A l \in BlankLineNumber..FirstWindowLines : BoundaryAt(lines, l - 1) < FunctionEnd

\* C8 as claimed: the first chunk ends on the blank line between the two
\* functions.  The backward search returns the closing brace before the blank
\* line (a FunctionEnd) as soon as it meets it, so this is violated.
C8_SplitOnBlankLine ==
    TwoFunctionCall => chunks[1].lineEnd = BlankLineNumber

\* C8 as amended: when the closing brace of the first function lies in the
\* last 30% of the first window and no later line of the window is a
\* FunctionEnd or ImportBlockEnd boundary, the first chunk ends on that
\* closing brace, the line before the blank line.
C8_SplitOnClosingBrace ==
    (TwoFunctionCall /\ BraceInSearchRange) => chunks[1].lineEnd = BlankLineNumber - 1

\* a two-function call whose search range holds the closing brace and the blank line
C8_Witness ==
    /\ TwoFunctionCall
    /\ BraceInSearchRange
    /\ BlankLineNumber <= FirstWindowLines
    /\ pc = "done"

(***************************************************************************)
(* C9 (configuration clamping): whatever integers the configuration holds, *)
(* the effective token ceiling is in [256, 2048], the effective line       *)
(* ceiling in [10, 200], the effective overlap budget in                   *)
(* [0, token ceiling - 1], and the call does not throw.                    *)
(***************************************************************************)
C9_ConfigClamping ==
    (variant = "code" /\ Emitting) =>
        /\ 256 <= maxTokens /\ maxTokens <= 2048
        /\ 10 <= maxLine /\ maxLine <= 200
        /\ 0 <= overlapTokens /\ overlapTokens <= maxTokens - 1
        /\ outcome # "threw"

\* a code call whose three configured values all lie below their ranges and
\* that returned several chunks
C9_Witness ==
    /\ Returned("code")
    /\ config.chunkMaxTokens < 256
    /\ config.chunkMaxLine < 10
    /\ config.chunkOverlapTokens < 0
    /\ Len(chunks) >= 2

(***************************************************************************)
(* C10 (tokenizer failure).                                                *)
(***************************************************************************)
\* C10 as claimed: a failing tokenizer surfaces as a distinct "tokenizer
\* unavailable" failure.  Nothing in the chunker catches or wraps the
\* library's error, so this is violated.
C10_DistinctFailure ==
    pc = "failed" =>
        /\ outcome = "threw"
        /\ thrown = "TokenizerUnavailable"
        /\ chunks = << >>
        /\ constructions <= 1

\* C10 as amended: when the tokenizer cannot be constructed or cannot encode,
\* the call returns no chunks and throws the tokenizer library's own error
\* unchanged, after at most one construction attempt.
C10_LibraryErrorPropagates ==
    pc = "failed" =>
        /\ outcome = "threw"
        /\ thrown \in ConstructErrors \cup EncodeErrors
        /\ chunks = << >>
        /\ constructions <= 1

\* a call that failed because the tokenizer could not be constructed
C10_Witness ==
    /\ pc = "failed"
    /\ encoding = "null"
    /\ thrown \in ConstructErrors
    /\ constructions = 1

(***************************************************************************)
(* C11 (dispatch).                                                         *)
(***************************************************************************)
\* the last component of a path: the text after the last '/'
RECURSIVE FileName(_)
FileName(path) ==
    IF \E i \in 1..Len(path) : CharAt(path, i) = "/"
    THEN FileName(SubSeq(path, (CHOOSE i \in 1..Len(path) : CharAt(path, i) = "/") + 1,
                         Len(path)))
    ELSE path

\* the file name has an extension: a '.' occurs in it
HasExtension(path) ==
    \E i \in 1..Len(FileName(path)) : CharAt(FileName(path), i) = "."

\* the extension: the text after the last '.' of the file name
FileExtension(path) ==
    LET name == FileName(path)
        lastDot == CHOOSE i \in 1..Len(name) :
                       /\ CharAt(name, i) = "."
                       /\ \A j \in (i + 1)..Len(name) : CharAt(name, j) # "."
    IN  SubSeq(name, lastDot + 1, Len(name))

\* the extensions the dispatcher sends to the document variant
DocumentExtensions == { "md", "markdown", "mdx", "txt", "rst", "adoc", "asciidoc" }

\* the path has one of the document extensions, compared without regard to case
HasDocumentExtension(path) ==
    /\ HasExtension(path)
    /\ toLowerCase(FileExtension(path)) \in DocumentExtensions

\* C11: a smartChunk call returns the result of splitDocumentIntoChunks when
\* the path's extension is a document extension, and the result of
\* splitIntoTokenChunks for every other path, paths without an extension
\* included.  The code takes the text after the last '.' of the whole path and,
\* for a path without any '.', the whole path, so the paths "md" and "TXT"
\* (no extension) reach the document variant; this is violated.
C11_Dispatch ==
    (entry = "smartChunk" /\ pc = "done") =>
        (variant = "doc" <=> HasDocumentExtension(filePath))

(***************************************************************************)
(* C12 (chunk range invariant): every chunk of either variant has          *)
(* 1 <= lineStart <= lineEnd <= totalLines and                             *)
(* 0 <= tokenStart <= tokenEnd <= totalTokens.                             *)
(***************************************************************************)
C12_ChunkRanges ==
    Emitting =>
        \A k \in 1..Len(chunks) :
            /\ 1 <= chunks[k].lineStart
            /\ chunks[k].lineStart <= chunks[k].lineEnd
            /\ chunks[k].lineEnd <= LineFeeds(content) + 1
            /\ 0 <= chunks[k].tokenStart
            /\ chunks[k].tokenStart <= chunks[k].tokenEnd
            /\ chunks[k].tokenEnd <= SumTokens(lines, 1, Len(lines))

\* a returned array of several chunks with a one-line chunk, a chunk of no
\* tokens, and a last chunk that reaches the last line and the last token
C12_Witness ==
    /\ pc = "done"
    /\ Len(chunks) >= 3
    /\ \E k \in 1..Len(chunks) : chunks[k].lineStart = chunks[k].lineEnd
    /\ \E k \in 1..Len(chunks) : chunks[k].tokenStart = chunks[k].tokenEnd
    /\ chunks[Len(chunks)].lineEnd = Len(lines)
    /\ chunks[Len(chunks)].tokenEnd = totalTokens

(***************************************************************************)
(* C13 (termination): the windowing loops of both variants terminate: a    *)
(* call that has built its token index returns; it pushes at most          *)
(* totalLines chunks; and the cursor startLine strictly increases on every *)
(* iteration that stays in the loop and never decreases.                   *)
(***************************************************************************)
C13_Termination ==
    /\ [](Emitting => Len(chunks) <= LineFeeds(content) + 1)
    /\ [][pc = "loop" => /\ startLine' >= startLine
                         /\ pc' = "loop" => startLine' > startLine]_vars
    /\ (pc = "indexed") ~> (pc = "done")

\* a call that returned after four or more iterations of its loop
C13_Witness ==
    /\ pc = "done"
    /\ Len(chunks) >= 4
    /\ Len(chunks) < Len(lines)
    /\ startLine > 0

NothingLeft ==
    /\ entry = "none"
    /\ filePath = ""
    /\ variant = "none"
    /\ content = ""
    /\ config = << >>
    /\ lines = << >>
    /\ tokenStarts = << >>
    /\ tokenEnds = << >>
    /\ totalTokens = 0
    /\ maxTokens = 0
    /\ maxLine = 0
    /\ overlapTokens = 0
    /\ codeBlocks = << >>
    /\ startLine = 0
    /\ chunks = << >>

(***************************************************************************)
(* C15 (tokenizer handle lifecycle): once the tokenizer has been           *)
(* constructed, no step constructs it again and every step keeps the       *)
(* cached handle; and whenever a call has ended, nothing of it is left but *)
(* the handle.                                                             *)
(***************************************************************************)
C15_HandleLifecycle ==
    [][ /\ encoding # "null" => /\ encoding' = encoding
                                /\ constructions' <= constructions
        /\ pc' = "idle" => NothingLeft' ]_vars

\* a later call in the process: it found the handle cached, constructed
\* nothing and returned several chunks
C15_Witness ==
    /\ pc = "done"
    /\ encoding = "cl100k_base"
    /\ constructions = 0
    /\ ~previous.known
    /\ Len(chunks) >= 2

InFencedBlock(l) ==
    \E b \in 1..Len(codeBlocks) : codeBlocks[b][1] <= l - 1 /\ l - 1 <= codeBlocks[b][2]

LineCeiling(chunk) ==
    IF variant = "code" THEN Clamped(config.chunkMaxLine, 10, 200)
    ELSE IF InFencedBlock(chunk.lineStart) THEN 30 ELSE 8

TokenCeiling(chunk) ==
    IF variant = "code" THEN Clamped(config.chunkMaxTokens, 256, 2048)
    ELSE IF InFencedBlock(chunk.lineStart) THEN 512 ELSE 256

LineSpan(chunk) == chunk.lineEnd - chunk.lineStart + 1

C17_ChunkSizeBound ==
    Emitting =>
        \A k \in 1..Len(chunks) :
            /\ LineSpan(chunks[k]) <= LineCeiling(chunks[k])
            /\ \/ LineSpan(chunks[k]) = 1
               \/ SumTokens(lines, chunks[k].lineStart, chunks[k].lineEnd)
                      <= TokenCeiling(chunks[k])

\* a returned document array with a chunk of 30 lines that starts inside a
\* fenced block and a chunk that starts outside one
C17_Witness ==
    /\ Returned("doc")
    /\ \E k \in 1..Len(chunks) :
          InFencedBlock(chunks[k].lineStart) /\ LineSpan(chunks[k]) = 30
    /\ \E k \in 1..Len(chunks) : ~InFencedBlock(chunks[k].lineStart)

\* the same at the token ceiling: a chunk of several lines and more than 256
\* tokens that starts inside a fenced block
C17_TokenWitness ==
    /\ Returned("doc")
    /\ \E k \in 1..Len(chunks) :
          /\ InFencedBlock(chunks[k].lineStart)
          /\ LineSpan(chunks[k]) > 1
          /\ SumTokens(lines, chunks[k].lineStart, chunks[k].lineEnd) > 256

(***************************************************************************)
(* C18 (code overlap cap): two consecutive chunks of the code variant      *)
(* share at most max(1, floor(0.25 * effective line ceiling)) lines, the   *)
(* shared lines being previous lineEnd - next lineStart + 1, also when the *)
(* next start follows a boundary found near the computed overlap start.    *)
(***************************************************************************)
SharedLines(cs, k) == cs[k].lineEnd - cs[k + 1].lineStart + 1

OverlapCap == Max(1, Clamped(config.chunkMaxLine, 10, 200) \div 4)

C18_CodeOverlapCap ==
    (Emitting /\ variant = "code") =>
        \A k \in 1..(Len(chunks) - 1) : SharedLines(chunks, k) <= OverlapCap

(***************************************************************************)
(* C19 (the document boundary search never proposes a fenced-block line):  *)
(* for the lines of a document, the ranges findCodeBlocks gives for them   *)
(* and every search range, findDocBoundary returns null or an index that   *)
(* lies in no fenced-block range, the fence lines included.  A heading at  *)
(* index i outside the blocks makes the search return i - 1, the closing   *)
(* fence when a block ends right before the heading; this is violated.     *)
(***************************************************************************)
\* the 0-based index i lies in one of the ranges
IndexInBlock(i, blocks) ==
    \E b \in 1..Len(blocks) : blocks[b][1] <= i /\ i <= blocks[b][2]

\* the 0-based index i is the last line of one of the ranges
LastOfBlock(i, blocks) == \E b \in 1..Len(blocks) : blocks[b][2] = i

\* a document call has returned to a caller that is not repeating it; the
\* lines and the ranges of the call are those of its content
DocumentSearched == Returned("doc") /\ ~previous.known

\* the result of the search over [searchStart, searchEnd) of the call's lines
BoundaryOf(searchStart, searchEnd) ==
    findDocBoundary(lines, searchStart, searchEnd, codeBlocks)

C19_NeverFencedLine ==
    DocumentSearched =>
        \A searchStart \in 0..Len(lines) : \A searchEnd \in searchStart..Len(lines) :
            LET found == BoundaryOf(searchStart, searchEnd)
            IN  found = Null \/ ~IndexInBlock(found, codeBlocks)

\* C19 as amended: the result is null, or an index in no fenced-block range,
\* or the last line of a fenced-block range when the line after it is a
\* heading that lies in the search range and in no fenced-block range.
C19_FencedOnlyBeforeHeading ==
    DocumentSearched =>
        \A searchStart \in 0..Len(lines) : \A searchEnd \in searchStart..Len(lines) :
            LET found == BoundaryOf(searchStart, searchEnd)
            IN  \/ found = Null
                \/ ~IndexInBlock(found, codeBlocks)
                \/ /\ LastOfBlock(found, codeBlocks)
                   /\ searchStart <= found + 1
                   /\ found + 1 < searchEnd
                   /\ ~IndexInBlock(found + 1, codeBlocks)
                   /\ getDocBoundaryType(At(lines, found + 1), At(lines, found)) = Heading

\* a returned document call in which the search of the first window answered
\* the closing fence of a block, and the first chunk ends on it
C19_Witness ==
    /\ DocumentSearched
    /\ Len(chunks) >= 2
    /\ LET limits == DocLimits(tokenEnds, codeBlocks, 0, 0)
           maxEndLine == DocMaxEndLine(tokenStarts, tokenEnds, Len(lines), codeBlocks,
                                       0, limits)
           found == BoundaryOf(SearchStart(0, maxEndLine, 4), maxEndLine)
       IN  /\ limits.forceEndLine = Null
           /\ found # Null
           /\ LastOfBlock(found, codeBlocks)
           /\ chunks[1].lineEnd = found + 1

(***************************************************************************)
(* C20 (no overlap into code): for two consecutive chunks of the document  *)
(* variant, no line of a fenced-block range lies in both; and when the     *)
(* earlier chunk ends on a line of a fenced-block range, the next chunk    *)
(* shares no line with it.                                                 *)
(***************************************************************************)
C20_NoOverlapIntoCode ==
    (Emitting /\ variant = "doc") =>
        \A k \in 1..(Len(chunks) - 1) :
            /\ \A l \in chunks[k + 1].lineStart..chunks[k].lineEnd : ~InFencedBlock(l)
            /\ InFencedBlock(chunks[k].lineEnd) => chunks[k + 1].lineStart > chunks[k].lineEnd

\* a returned document array with two chunks that share the line of prose
\* which comes right after a fenced block: the overlap start fell on the
\* closing fence and the next chunk starts after the block
C20_Witness ==
    /\ Returned("doc")
    /\ \E k \in 1..(Len(chunks) - 1) :
          /\ chunks[k + 1].lineStart = chunks[k].lineEnd
          /\ InFencedBlock(chunks[k + 1].lineStart - 1)
          /\ ~InFencedBlock(chunks[k].lineStart)

\* a returned document array with a chunk that ends on a fenced-block line and
\* a chunk after it
C20_EndsInBlockWitness ==
    /\ Returned("doc")
    /\ \E k \in 1..(Len(chunks) - 1) :
          /\ InFencedBlock(chunks[k].lineEnd)
          /\ chunks[k + 1].lineStart = chunks[k].lineEnd + 1

(***************************************************************************)
(* C21 (code boundary search result): over the lines of a code call, for   *)
(* every search range and each minimum strength the chunker passes         *)
(* (Semicolon for the end of a chunk, BlankLine for the next start),       *)
(* findBestBoundary returns the highest index of the range whose strength  *)
(* is at least FunctionEnd when there is one; otherwise the highest index  *)
(* among the lines of the greatest strength that is at least the minimum;  *)
(* otherwise null.                                                         *)
(***************************************************************************)
\* found is what the claim describes for the range and the minimum least,
\* given the strength of every line
IsBestBoundary(found, strength, searchStart, searchEnd, least) ==
    LET range == searchStart..(searchEnd - 1) IN
    IF \E i \in range : strength[i] >= FunctionEnd
    THEN /\ found \in range
         /\ strength[found] >= FunctionEnd
         /\ \A j \in (found + 1)..(searchEnd - 1) : strength[j] < FunctionEnd
    ELSE IF \E i \in range : strength[i] >= least
         THEN /\ found \in range
              /\ strength[found] >= least
              /\ \A j \in range : strength[j] <= strength[found]
              /\ \A j \in (found + 1)..(searchEnd - 1) : strength[j] < strength[found]
         ELSE found = Null

\* the strength of every line of the probe's text
ProbeStrengths == [ i \in 0..(Len(probe.lines) - 1) |-> BoundaryAt(probe.lines, i) ]

C21_BestBoundary ==
    probe.fn = "findBestBoundary" =>
        IsBestBoundary(probe.result, ProbeStrengths, probe.searchStart,
                       probe.searchEnd, probe.minBoundaryType)

\* a search that answered a line below FunctionEnd although the range holds a
\* line of the same strength before it and a weaker acceptable line after it
C21_Witness ==
    /\ probe.fn = "findBestBoundary"
    /\ probe.result # Null
    /\ ProbeStrengths[probe.result] < FunctionEnd
    /\ \E j \in probe.searchStart..(probe.result - 1) :
          ProbeStrengths[j] = ProbeStrengths[probe.result]
    /\ \E j \in (probe.result + 1)..(probe.searchEnd - 1) :
          /\ ProbeStrengths[j] >= probe.minBoundaryType
          /\ ProbeStrengths[j] < ProbeStrengths[probe.result]

\* a search that took the first line at or above FunctionEnd it met, with a
\* stronger line before it in the range
C21_EarlyExitWitness ==
    /\ probe.fn = "findBestBoundary"
    /\ probe.result # Null
    /\ ProbeStrengths[probe.result] = FunctionEnd
    /\ \E j \in probe.searchStart..(probe.result - 1) :
          ProbeStrengths[j] > FunctionEnd

(***************************************************************************)
(* C22 (code boundary classification is first-match): getBoundaryType      *)
(* returns the strength of the first rule that holds, in the order         *)
(* DoubleBlankLine, ImportBlockEnd, FunctionEnd/CloseBrace, BlankLine,     *)
(* MultiLineCommentEnd, SingleLineComment, Semicolon, and None when no     *)
(* rule holds.  The rules read the trimmed texts; a neighbour that does    *)
(* not exist reads as an empty line.                                       *)
(***************************************************************************)
\* the trimmed text of line j of the probe's text, empty when there is no line j
TrimmedAt(j) ==
    IF j >= 0 /\ j < Len(probe.lines) THEN Trim(At(probe.lines, j)) ELSE ""

ImportStyle(text) == StartsWith(text, "import ") \/ StartsWith(text, "from ")

\* rule k of the classification holds for line i
RuleHolds(k, i) ==
    LET current == TrimmedAt(i)
        previous_ == TrimmedAt(i - 1)
        next == TrimmedAt(i + 1)
    IN  CASE k = 1 -> current = "" /\ previous_ = ""
          [] k = 2 -> ImportStyle(current) /\ next # "" /\ ~ImportStyle(next)
          [] k = 3 -> current \in { "}", "};" }
          [] k = 4 -> current = ""
          [] k = 5 -> EndsWith(current, "*/")
          [] k = 6 -> \E marker \in { "//", "#", "*" } : StartsWith(current, marker)
          [] k = 7 -> EndsWith(current, ";")

\* the strength rule k gives line i
RuleStrength(k, i) ==
    CASE k = 1 -> DoubleBlankLine
      [] k = 2 -> ImportBlockEnd
      [] k = 3 -> IF \/ TrimmedAt(i + 1) = ""
                     \/ \E d \in { "function ", "class ", "export ", "const ", "async ",
                                   "def ", "public ", "private ", "@" } :
                            StartsWith(TrimmedAt(i + 1), d)
                  THEN FunctionEnd ELSE CloseBrace
      [] k = 4 -> BlankLine
      [] k = 5 -> MultiLineCommentEnd
      [] k = 6 -> SingleLineComment
      [] k = 7 -> Semicolon

C22_FirstMatch ==
    probe.fn = "getBoundaryType" =>
        IF \E k \in 1..7 : RuleHolds(k, probe.index)
        THEN \E k \in 1..7 :
                /\ RuleHolds(k, probe.index)
                /\ \A earlier \in 1..(k - 1) : ~RuleHolds(earlier, probe.index)
                /\ probe.result = RuleStrength(k, probe.index)
        ELSE probe.result = None

\* a line that meets the condition of two rules of different strengths and
\* has the strength of the earlier one, which is the weaker of the two
C22_Witness ==
    /\ probe.fn = "getBoundaryType"
    /\ \E k \in 1..7 : \E later \in (k + 1)..7 :
          /\ RuleHolds(k, probe.index)
          /\ RuleHolds(later, probe.index)
          /\ probe.result = RuleStrength(k, probe.index)
          /\ RuleStrength(later, probe.index) # probe.result
    /\ probe.result = MultiLineCommentEnd

(***************************************************************************)
(* C23 (heading policy of the document boundary search): when the search   *)
(* range holds a Heading line outside every fenced block, findDocBoundary  *)
(* returns the index before the highest such heading (the heading's own    *)
(* index when it is line 0), whatever else the range holds; when it holds  *)
(* none, the result is the highest index among the strongest lines of the  *)
(* range that are not None and lie outside the fenced blocks, or null.     *)
(***************************************************************************)
\* the document strength of every line of the probe's text
ProbeDocStrengths ==
    [ i \in 0..(Len(probe.lines) - 1) |->
        getDocBoundaryType(At(probe.lines, i),
                           IF i > 0 THEN At(probe.lines, i - 1) ELSE "") ]

\* the indices of the probe's range that lie outside the fenced blocks and
\* have a strength of at least least
OutsideAtLeast(least) ==
    { i \in probe.searchStart..(probe.searchEnd - 1) :
        ~IndexInBlock(i, probe.codeBlocks) /\ ProbeDocStrengths[i] >= least }

C23_HeadingPolicy ==
    probe.fn = "findDocBoundary" =>
        IF OutsideAtLeast(Heading) # {}
        THEN \E h \in OutsideAtLeast(Heading) :
                /\ \A j \in OutsideAtLeast(Heading) : j <= h
                /\ probe.result = (IF h = 0 THEN 0 ELSE h - 1)
        ELSE IF OutsideAtLeast(ListItem) # {}
             THEN /\ probe.result \in OutsideAtLeast(ListItem)
                  /\ \A j \in OutsideAtLeast(ListItem) :
                        /\ ProbeDocStrengths[j] <= ProbeDocStrengths[probe.result]
                        /\ j > probe.result =>
                              ProbeDocStrengths[j] < ProbeDocStrengths[probe.result]
             ELSE probe.result = Null

\* a search that answered the line before a heading although a boundary
\* follows the heading in the range
C23_Witness ==
    /\ probe.fn = "findDocBoundary"
    /\ probe.result # Null
    /\ probe.result + 1 \in OutsideAtLeast(Heading)
    /\ \E j \in OutsideAtLeast(ListItem) : j > probe.result + 1

\* a search without a heading that answered the later of two lines of the
\* greatest strength, with a weaker boundary after it
C23_StrongestWitness ==
    /\ probe.fn = "findDocBoundary"
    /\ OutsideAtLeast(Heading) = {}
    /\ probe.result # Null
    /\ \E j \in OutsideAtLeast(ListItem) :
          j < probe.result /\ ProbeDocStrengths[j] = ProbeDocStrengths[probe.result]
    /\ \E j \in OutsideAtLeast(ListItem) : j > probe.result

(***************************************************************************)
(* C24 (fenced-block locator): findCodeBlocks returns ranges [start, end]  *)
(* in ascending order and pairwise disjoint, with start and end both fence *)
(* lines and start < end, except that a last block that is not terminated  *)
(* ends on the last line of the text; every fence line of the text belongs *)
(* to exactly one range, as its start or its end.                          *)
(***************************************************************************)
\* line i of the probe's text is a fence line
ProbeFence(i) == isCodeFence(At(probe.lines, i))

C24_FencedBlocks ==
    probe.fn = "findCodeBlocks" =>
        LET blocks == probe.result
            last == Len(probe.lines) - 1
        IN  /\ \A b \in 1..Len(blocks) :
                  /\ 0 <= blocks[b][1]
                  /\ blocks[b][2] <= last
                  /\ ProbeFence(blocks[b][1])
                  /\ \/ ProbeFence(blocks[b][2]) /\ blocks[b][1] < blocks[b][2]
                     \/ /\ b = Len(blocks)
                        /\ blocks[b][2] = last
                        /\ \A j \in (blocks[b][1] + 1)..last : ~ProbeFence(j)
            /\ \A b \in 1..(Len(blocks) - 1) : blocks[b][2] < blocks[b + 1][1]
            /\ \A i \in 0..last :
                  ProbeFence(i) =>
                      \E b \in 1..Len(blocks) :
                          /\ blocks[b][1] = i \/ blocks[b][2] = i
                          /\ \A c \in 1..Len(blocks) :
                                (blocks[c][1] = i \/ blocks[c][2] = i) => c = b

\* a text with a closed block and, after it, a block that is not terminated
C24_Witness ==
    /\ probe.fn = "findCodeBlocks"
    /\ Len(probe.result) = 2
    /\ ProbeFence(probe.result[1][2])
    /\ probe.result[1][1] < probe.result[1][2]
    /\ probe.result[2][2] = Len(probe.lines) - 1
    /\ \A j \in (probe.result[2][1] + 1)..(Len(probe.lines) - 1) : ~ProbeFence(j)

(***************************************************************************)
(* C25 (forced block end): a window of splitDocumentIntoChunks that starts *)
(* at a line of a fenced block [s, e], with at most 512 tokens and at most *)
(* 30 lines from the window's start through line e, gives a chunk that     *)
(* ends at line e (lineEnd = e + 1), whatever boundary lies inside or      *)
(* after the block.                                                        *)
(***************************************************************************)
\* the document went through the windowing loop, not the single-chunk return
DocWindowed ==
    /\ variant = "doc"
    /\ Emitting
    /\ ~(totalTokens <= DOC_CONFIG.maxTokens /\ Len(lines) <= DOC_CONFIG.maxLine)

\* chunk k starts in block b, and the rest of the block fits the budget
StartsInFittingBlock(k, b) ==
    LET start == chunks[k].lineStart - 1
        blockEnd == codeBlocks[b][2]
    IN  /\ codeBlocks[b][1] <= start
        /\ start <= blockEnd
        /\ At(tokenEnds, blockEnd) - At(tokenStarts, start) <= 512
        /\ blockEnd - start + 1 <= 30

C25_ForcedBlockEnd ==
    DocWindowed =>
        \A k \in 1..Len(chunks) : \A b \in 1..Len(codeBlocks) :
            StartsInFittingBlock(k, b) => chunks[k].lineEnd = codeBlocks[b][2] + 1

\* a chunk that starts on the opening fence of a closed block, ends on the
\* closing fence and has a heading after it
C25_Witness ==
    /\ DocWindowed
    /\ \E k \in 1..Len(chunks) : \E b \in 1..Len(codeBlocks) :
          /\ StartsInFittingBlock(k, b)
          /\ chunks[k].lineStart - 1 = codeBlocks[b][1]
          /\ chunks[k].lineEnd = codeBlocks[b][2] + 1
          /\ codeBlocks[b][2] + 1 < Len(lines)
          /\ getDocBoundaryType(At(lines, codeBlocks[b][2] + 1),
                                At(lines, codeBlocks[b][2])) = Heading

\* a chunk that starts after the opening fence of a block too long for one
\* chunk and ends on the block's last line
C25_MidBlockWitness ==
    /\ DocWindowed
    /\ \E k \in 1..Len(chunks) : \E b \in 1..Len(codeBlocks) :
          /\ StartsInFittingBlock(k, b)
          /\ chunks[k].lineStart - 1 > codeBlocks[b][1]
          /\ chunks[k].lineEnd = codeBlocks[b][2] + 1

(***************************************************************************)
(* C26 (zero overlap partitions the input): when chunkOverlapTokens <= 0,  *)
(* so that the clamped overlap budget of splitIntoTokenChunks is 0, every  *)
(* chunk after the first has lineStart = the previous chunk's lineEnd + 1  *)
(* and tokenStart = the previous chunk's tokenEnd, and the returned chunks *)
(* partition the lines 1..totalLines.                                      *)
(***************************************************************************)
\* a call of the code variant with no overlap requested
ZeroOverlap == variant = "code" /\ Emitting /\ config.chunkOverlapTokens <= 0

C26_ZeroOverlapPartition ==
    ZeroOverlap =>
        /\ overlapTokens = 0
        /\ \A k \in 2..Len(chunks) :
              /\ chunks[k].lineStart = chunks[k - 1].lineEnd + 1
              /\ chunks[k].tokenStart = chunks[k - 1].tokenEnd
        /\ Returned("code") =>
              \A l \in 1..Len(lines) :
                  \E k \in 1..Len(chunks) :
                      /\ chunks[k].lineStart <= l /\ l <= chunks[k].lineEnd
                      /\ \A j \in 1..Len(chunks) :
                            (chunks[j].lineStart <= l /\ l <= chunks[j].lineEnd) => j = k

\* a call with no overlap requested that returned two chunks or more
C26_Witness ==
    /\ ZeroOverlap
    /\ Returned("code")
    /\ Len(chunks) >= 2

(***************************************************************************)
(* C27 (legacy databases skip the initial migration): a migrate() that     *)
(* initialize() starts on a database that has indexed_files and no         *)
(* schema_migrations does not apply migration 1 and does not record        *)
(* version 1; it applies and records migration 2 only.  migrate() creates  *)
(* schema_migrations before it reads the version, the version it reads is  *)
(* 0 and not 1, so this is violated.                                       *)
(***************************************************************************)
\* the running migrate() began on a database written by v0.0.8
CalledOnLegacy ==
    /\ migPc \in { "ensured", "loop", "record", "migrated" }
    /\ "indexed_files" \in calledOn
    /\ "schema_migrations" \notin calledOn

\* the up of the given version has run in the current call
UpHasRun(version) ==
    \/ \E i \in 1..Len(applied) : applied[i] = version
    \/ migPc = "record" /\ getMigrations[migIndex] = version

C27_LegacySkipsInitial ==
    CalledOnLegacy =>
        /\ ~UpHasRun(1)
        /\ 1 \notin recorded
        /\ migPc = "migrated" => applied = << 2 >> /\ recorded = { 2 }

(***************************************************************************)
(* C28 (every chunk adds new lines): in the chunks of                      *)
(* splitIntoTokenChunks each chunk after the first has a lineEnd strictly  *)
(* greater than the previous chunk's lineEnd.  After a chunk that ends in  *)
(* front of a line too large for the token ceiling, the overlap moves the  *)
(* next start back and the next window stops before that line again, so    *)
(* this is violated.                                                       *)
(***************************************************************************)
C28_EveryChunkAddsLines ==
    (variant = "code" /\ Emitting) =>
        \A k \in 2..Len(chunks) : chunks[k].lineEnd > chunks[k - 1].lineEnd

(***************************************************************************)
(* C29 (single initialisation under interleaving): whatever the            *)
(* interleaving of concurrent initialize() calls on one service object, at *)
(* most one database instance and one connection are created and the       *)
(* schema setup runs at most once between two close() calls.  The guard of *)
(* initialize() reads this.initialized, which is set only after the last   *)
(* await, so a second call that starts before the first has finished       *)
(* passes the guard and opens the database again: this is violated.        *)
(***************************************************************************)
C29_SingleInitialisation ==
    /\ instancesCreated <= 1
    /\ connectionsCreated <= 1
    /\ schemaSetups <= 1

(***************************************************************************)
(* C30 (tree-view cache coherence): whenever cachedFolderTrees holds a     *)
(* tree for a workspace, that tree is the one buildFolderTree gives for    *)
(* the entries cachedEntries holds for the same workspace.  The root level *)
(* of getChildren replaces the cached entries of a workspace and leaves    *)
(* the cached folder tree in place, so this is violated.                   *)
(***************************************************************************)
C30_CacheCoherence ==
    \A w \in DOMAIN cachedFolderTrees :
        /\ w \in DOMAIN cachedEntries
        /\ cachedFolderTrees[w] = buildFolderTree(cachedEntries[w])

====
